---- MODULE Spec2Model ----
(***************************************************************************)
(* A model of the rewrite core of c2rust-analyze:                          *)
(*   - rewrite/mod.rs          Rewrite and its pretty-printer               *)
(*   - rewrite/expr/mir_op.rs  the MIR rewrite annotator (gen_mir_rewrites) *)
(*   - rewrite/expr/unlower.rs the unlowering map builder (unlower)         *)
(***************************************************************************)
EXTENDS Integers, Sequences, FiniteSets, TLC

VARIABLES
    rw,         \* pretty-printer: the Rewrite being printed
    out,        \* pretty-printer: the text written to the formatter
    printed,    \* pretty-printer: whether Display::fmt has run
    mir,        \* unlower: the MIR body, a sequence of instructions
    pending,    \* unlower: the HIR expressions still to visit, next first
    created,    \* unlower: the number of HIR expressions of the body so far
    visited,    \* unlower: per span, how many visited HIR expressions carry it
    mir_map,    \* UnlowerVisitor::mir_map
    conflicts,  \* unlower: the "conflicting origins" errors logged
    warnings,   \* unlower: the warnings logged
    calls,      \* record_desc: the calls made so far, in order
    last_expr,  \* unlower: the expression of the latest visit_expr, and its children
    cur,        \* gen_mir_rewrites: the statement or terminator under visit
    pos,        \* gen_mir_rewrites: the Location the loops have reached
    nvisited,   \* gen_mir_rewrites: the number of instructions visited
    self_loc,   \* ExprRewriteVisitor::loc
    self_sub_loc, \* ExprRewriteVisitor::sub_loc
    rewrites,   \* ExprRewriteVisitor::rewrites, the map that is returned
    diags,      \* the "unsupported cast kind" lines written to stderr
    casts,      \* emit_cast_desc_desc: the calls made so far, in order
    status,     \* "loop", "visit", "visited", "done" or, after a panic, "aborted"
    failure,    \* the message of the panic, "" when there was none
    current_panic_detail, \* panic_detail: CURRENT_PANIC_DETAIL, an Option
    current_span, \* panic_detail: CURRENT_SPAN
    frames,     \* panic_detail: the live guards and catch frames, innermost last
    in_flight,  \* panic_detail: the payload of the panic that is unwinding
    ret,        \* panic_detail: the last operation and what it returned
    warned,     \* panic_detail: what the last operation logged with warn!
    recent      \* panic_detail: the latest panic the hook saw, until it is taken

prettyVars == <<rw, out, printed>>
unlowerVars ==
    <<mir, pending, created, visited, mir_map, conflicts, warnings, calls, last_expr>>
annotVars ==
    <<cur, pos, nvisited, self_loc, self_sub_loc, rewrites, diags, casts, status, failure>>

panicVars ==
    <<current_panic_detail, current_span, frames, in_flight, ret, warned, recent>>

vars == <<rw, out, printed, mir, pending, created, visited, mir_map, conflicts,
          warnings, calls, last_expr, cur, pos, nvisited, self_loc, self_sub_loc, rewrites, diags,
          casts, status, failure, current_panic_detail, current_span, frames,
          in_flight, ret, warned, recent>>

(***************************************************************************)
(* rewrite/expr/mir_op.rs: enum SubLoc.  A tag is a pair <<name, n>>, n the *)
(* usize of the variants that carry one and 0 otherwise; a sub-location    *)
(* path (Vec<SubLoc>) is a sequence of tags.                               *)
(***************************************************************************)
Dest == <<"Dest", 0>>
AssignRvalue == <<"AssignRvalue", 0>>
CallArg(i) == <<"CallArg", i>>
RvalueOperand(i) == <<"RvalueOperand", i>>
RvaluePlace(i) == <<"RvaluePlace", i>>
OperandPlace == <<"OperandPlace", 0>>
PlacePointer(i) == <<"PlacePointer", i>>
\* unlower.rs names the right-hand side SubLoc::Rvalue, a variant that the
\* enum SubLoc of mir_op.rs does not have: the tag is kept as unlower.rs
\* writes it, distinct from AssignRvalue.
Rvalue == <<"Rvalue", 0>>

\* Location { block, statement_index }
Location(block, statement_index) == <<block, statement_index>>

(***************************************************************************)
(* type_desc and context, as rewrite/expr/mir_op.rs uses them.             *)
(*                                                                         *)
(* A type is [kind, pointee, region]: kind "RawPtr", "Ref" or "Other",     *)
(* pointee the pointee type of a pointer, region the lifetime it carries.  *)
(* A pointer label stands for its entries in the permission and flag       *)
(* tables: [none, perms, flags].  A labelled type (LTy) is [ty, label].    *)
(***************************************************************************)
Ownerships == {"Raw", "Imm", "Cell", "Mut"}
Quantities == {"Single", "Slice", "OffsetPtr", "Array"}

TypeDesc(own, qty, pointee_ty) == [own |-> own, qty |-> qty, pointee_ty |-> pointee_ty]

Ty(kind, pointee, region) == [kind |-> kind, pointee |-> pointee, region |-> region]

\* TyCtxt::erase_regions
erase_regions(ty) == [ty EXCEPT !.region = "erased"]

\* The pointee type of a pointer type, a type of its own.

\* Ty::is_any_ptr
is_any_ptr(ty) == ty.kind \in {"RawPtr", "Ref"}

NoLabel == [none |-> TRUE, perms |-> {}, flags |-> {}]
Label(perms, flags) == [none |-> FALSE, perms |-> perms, flags |-> flags]

LTy(ty, label) == [ty |-> ty, label |-> label]

\* type_desc::perms_to_desc: the CELL flag dominates, else WRITE selects Mut
\* over Imm; OFFSET_SUB and OFFSET_ADD select the quantity; a type that is
\* not a pointer has the passthrough descriptor.
perms_to_desc(ty, perms, flags) ==
    IF ~is_any_ptr(ty) THEN TypeDesc("Raw", "Single", ty)
    ELSE TypeDesc(IF "CELL" \in flags THEN "Cell"
                  ELSE IF "WRITE" \in perms THEN "Mut" ELSE "Imm",
                  IF "OFFSET_SUB" \in perms THEN "OffsetPtr"
                  ELSE IF "OFFSET_ADD" \in perms THEN "Slice" ELSE "Single",
                  Ty("Other", ty.pointee, ty.region))

\* type_desc::local_perms_to_desc, for the pointer to a local: the ownership
\* is chosen as in perms_to_desc, and the local is a single value.
local_perms_to_desc(local_ty, perms, flags) ==
    TypeDesc(IF "CELL" \in flags THEN "Cell"
             ELSE IF "WRITE" \in perms THEN "Mut" ELSE "Imm",
             "Single", local_ty)

(***************************************************************************)
(* MIR, as the annotator reads it.                                         *)
(*   Local    [lty, addr]: acx.local_tys[l] and the label acx.addr_of_local[l] *)
(*   Place    [local, indirect, lty, ptr]: lty is acx.type_of(pl); ptr is  *)
(*     the type of the pointer an indirect place dereferences, the local  *)
(*     itself or a field of it (as in *(_1.0))                            *)
(*   Operand  [is_place, place, lty]: Copy/Move of a place, or a Constant  *)
(*   Rvalue   [kind, ops, mutbl]: ops the operands, mutbl of AddressOf     *)
(*   instruction [kind, pl, rv, rv_lty, skip, func, args, sig_inputs]:     *)
(*     an Assign has pl, rv, rv_lty = acx.type_of_rvalue(rv, loc) and      *)
(*     skip = acx.c_void_casts.should_skip_stmt(loc); a Call has func (its *)
(*     Callee), args, pl its destination and sig_inputs the number of      *)
(*     declared inputs of the callee.                                      *)
(***************************************************************************)
Local(lty, addr) == [lty |-> lty, addr |-> addr]
Place(local, indirect, lty, ptr) ==
    [local |-> local, indirect |-> indirect, lty |-> lty, ptr |-> ptr]

NonPtrLTy == LTy(Ty("Other", "-", "erased"), NoLabel)
PlainAddr == Label({"WRITE"}, {})
PlainPlace == Place(Local(NonPtrLTy, PlainAddr), FALSE, NonPtrLTy, NonPtrLTy)

Operand(is_place, place, lty) == [is_place |-> is_place, place |-> place, lty |-> lty]
Constant == Operand(FALSE, PlainPlace, NonPtrLTy)
Copy(pl) == Operand(TRUE, pl, pl.lty)

\* AnalysisCtxt::type_of
type_of(x) == x.lty

Rv(kind, ops, mutbl) == [kind |-> kind, ops |-> ops, mutbl |-> mutbl]
NoRv == Rv("-", <<>>, FALSE)

MirInstr(kind, pl, rv, rv_lty, skip, func, args, sig_inputs) ==
    [kind |-> kind, pl |-> pl, rv |-> rv, rv_lty |-> rv_lty, skip |-> skip,
     func |-> func, args |-> args, sig_inputs |-> sig_inputs]

NoInstr == MirInstr("-", PlainPlace, NoRv, NonPtrLTy, FALSE, "-", <<>>, 0)
Assign(pl, rv, rv_lty, skip) ==
    MirInstr("Assign", pl, rv, rv_lty, skip, "-", <<>>, 0)
Call(func, args, destination, sig_inputs) ==
    MirInstr("Call", destination, NoRv, NonPtrLTy, FALSE, func, args, sig_inputs)

MirStatementKinds ==
    {"Assign", "FakeRead", "SetDiscriminant", "Deinit", "StorageLive",
     "StorageDead", "Retag", "AscribeUserType", "Coverage",
     "CopyNonOverlapping", "Nop"}
MirTerminatorKinds ==
    {"Goto", "SwitchInt", "Resume", "Abort", "Return", "Unreachable", "Drop",
     "DropAndReplace", "Call", "Assert", "Yield", "GeneratorDrop",
     "FalseEdge", "FalseUnwind", "InlineAsm"}

(***************************************************************************)
(* rewrite/expr/mir_op.rs: RewriteKind, MirRewrite, ExprRewriteVisitor.    *)
(***************************************************************************)
RewriteKind(kind, mutbl) == [kind |-> kind, mutbl |-> mutbl]
OffsetSlice(mutbl) == RewriteKind("OffsetSlice", mutbl)
SliceFirst(mutbl) == RewriteKind("SliceFirst", mutbl)
MutToImm == RewriteKind("MutToImm", FALSE)
RemoveAsPtr == RewriteKind("RemoveAsPtr", FALSE)
RawToRef(mutbl) == RewriteKind("RawToRef", mutbl)
CellNew == RewriteKind("CellNew", FALSE)
CellGet == RewriteKind("CellGet", FALSE)
CellSet == RewriteKind("CellSet", FALSE)

MirRewrite(kind, path) == [kind |-> kind, sub_loc |-> path]

EmptyRewrites == [l \in {} |-> <<>>]

\* The state of an ExprRewriteVisitor: its fields loc, sub_loc and rewrites,
\* what it has written to stderr, whether it has panicked and with what
\* message, and the history of the calls of emit_cast_desc_desc.
RewriteVisitor(l, path, rws, errs, history, st, msg) ==
    [loc |-> l, sub_loc |-> path, rewrites |-> rws, diags |-> errs,
     casts |-> history, status |-> st, failure |-> msg]

\* A panic (todo!, unreachable!, assert_eq!) ends the session: nothing that
\* follows it in the code runs.
panic(v, msg) ==
    IF v.status = "aborted" THEN v
    ELSE [v EXCEPT !.status = "aborted", !.failure = msg]

\* A plausible slip: the tag pushed is not popped again.
pop_keep(v) == v

\* ExprRewriteVisitor::enter(sub, f) is pop(f(push(sub))): the push before
\* the closure f runs, and the pop after it.
push(v, sub) ==
    IF v.status = "aborted" THEN v
    ELSE [v EXCEPT !.sub_loc = Append(v.sub_loc, sub)]

pop(v) ==
    IF v.status = "aborted" THEN v
    ELSE [v EXCEPT !.sub_loc = SubSeq(v.sub_loc, 1, Len(v.sub_loc) - 1)]

\* The push of enter_dest, enter_assign_rvalue, enter_call_arg,
\* enter_rvalue_operand and enter_rvalue_place; each is closed by pop.
enter_dest(v) == push(v, Dest)
enter_assign_rvalue(v) == push(v, AssignRvalue)
enter_call_arg(v, i) == push(v, CallArg(i))
enter_rvalue_operand(v, i) == push(v, RvalueOperand(i))
enter_rvalue_place(v, i) == push(v, RvaluePlace(i))

\* ExprRewriteVisitor::emit
emit(v, kind) ==
    IF v.status = "aborted" THEN v
    ELSE LET r == MirRewrite(kind, v.sub_loc)
         IN [v EXCEPT !.rewrites =
                IF v.loc \in DOMAIN v.rewrites
                THEN [v.rewrites EXCEPT ![v.loc] = Append(@, r)]
                ELSE (v.loc :> <<r>>) @@ v.rewrites]

\* eprintln!("unsupported cast kind: {:?} -> {:?}", from, to)
eprintln(v, from, to) ==
    IF v.status = "aborted" THEN v
    ELSE [v EXCEPT !.diags = Append(v.diags, [from |-> from, to |-> to])]

\* One call of emit_cast_desc_desc, as kept in the history.
CastCall(v, from, to) == [loc |-> v.loc, sub_loc |-> v.sub_loc, from |-> from, to |-> to]

\* A plausible slip: every change of ownership is taken for the narrowing.
emit_cast_any_own(v0, from, to) ==
    IF v0.status = "aborted" THEN v0
    ELSE LET v == [v0 EXCEPT !.casts = Append(v0.casts, CastCall(v0, from, to))]
         IN IF erase_regions(from.pointee_ty) # erase_regions(to.pointee_ty)
            THEN panic(v, "assertion failed: (left == right)")
            ELSE IF from = to THEN v
            ELSE IF from.qty = to.qty /\ from.own # to.own
                 THEN emit(v, MutToImm)
                 ELSE eprintln(v, from, to)

\* A plausible slip: an unsupported cast ends the session.
emit_cast_hard_failure(v0, from, to) ==
    IF v0.status = "aborted" THEN v0
    ELSE LET v == [v0 EXCEPT !.casts = Append(v0.casts, CastCall(v0, from, to))]
         IN IF erase_regions(from.pointee_ty) # erase_regions(to.pointee_ty)
            THEN panic(v, "assertion failed: (left == right)")
            ELSE IF from = to THEN v
            ELSE IF from.qty = to.qty /\ <<from.own, to.own>> = <<"Mut", "Imm">>
                 THEN emit(v, MutToImm)
                 ELSE panic(v, "unsupported cast kind")

\* ExprRewriteVisitor::emit_cast_desc_desc
emit_cast_desc_desc(v0, from, to) ==
    IF v0.status = "aborted" THEN v0
    ELSE LET v == [v0 EXCEPT !.casts = Append(v0.casts, CastCall(v0, from, to))]
         IN IF erase_regions(from.pointee_ty) # erase_regions(to.pointee_ty)
            THEN panic(v, "assertion failed: (left == right)")
            ELSE IF from = to THEN v
            ELSE IF from.qty = to.qty /\ <<from.own, to.own>> = <<"Mut", "Imm">>
                 THEN emit(v, MutToImm)
                 ELSE eprintln(v, from, to)

\* ExprRewriteVisitor::emit_cast_lty_desc
emit_cast_lty_desc(v, from_lty, to) ==
    emit_cast_desc_desc(
        v, perms_to_desc(from_lty.ty, from_lty.label.perms, from_lty.label.flags), to)

\* A plausible slip: the types that are already safe are cast as well.
emit_cast_lty_lty_safe_too(v, from_lty, to_lty) ==
    IF from_lty.label.none /\ to_lty.label.none THEN v
    ELSE emit_cast_desc_desc(
            v,
            perms_to_desc(from_lty.ty, from_lty.label.perms, from_lty.label.flags),
            perms_to_desc(to_lty.ty, to_lty.label.perms, to_lty.label.flags))

\* ExprRewriteVisitor::emit_cast_lty_lty
emit_cast_lty_lty(v, from_lty, to_lty) ==
    IF from_lty.label.none /\ to_lty.label.none THEN v
    ELSE IF from_lty.ty.kind # "RawPtr" /\ to_lty.ty.kind # "RawPtr" THEN v
    ELSE emit_cast_desc_desc(
            v,
            perms_to_desc(from_lty.ty, from_lty.label.perms, from_lty.label.flags),
            perms_to_desc(to_lty.ty, to_lty.label.perms, to_lty.label.flags))

\* Option<LTy>
NoLTy == [some |-> FALSE, lty |-> NonPtrLTy]
SomeLTy(lty) == [some |-> TRUE, lty |-> lty]

\* ExprRewriteVisitor::visit_place
visit_place(v, pl) == v

\* ExprRewriteVisitor::visit_operand
visit_operand(v, op, expect_ty) ==
    IF op.is_place
    THEN LET v1 == visit_place(v, op.place)
             ptr_lty == type_of(op.place)
         IN IF expect_ty.some /\ ~ptr_lty.label.none
            THEN emit_cast_lty_lty(v1, ptr_lty, expect_ty.lty)
            ELSE v1
    ELSE v

\* ExprRewriteVisitor::visit_operand_desc
visit_operand_desc(v, op, expect_desc) ==
    IF op.is_place
    THEN LET v1 == visit_place(v, op.place)
             ptr_lty == type_of(op.place)
         IN IF ~ptr_lty.label.none
            THEN emit_cast_lty_desc(v1, ptr_lty, expect_desc)
            ELSE v1
    ELSE v

\* The loop of the Aggregate case of visit_rvalue, from operand i on.
RECURSIVE visit_operands(_, _, _)
visit_operands(v, ops, i) ==
    IF i >= Len(ops) THEN v
    ELSE visit_operands(
            pop(visit_operand(enter_rvalue_operand(v, i), ops[i + 1], NoLTy)),
            ops, i + 1)

\* A plausible slip: a Cell target keeps the declared mutability.
visit_rvalue_cell_as_declared(v, rv, expect_ty) ==
    CASE rv.kind = "Use" ->
            pop(visit_operand(enter_rvalue_operand(v, 0), rv.ops[1], expect_ty))
      [] rv.kind \in {"Repeat", "Cast", "UnaryOp", "ShallowInitBox"} ->
            pop(visit_operand(enter_rvalue_operand(v, 0), rv.ops[1], NoLTy))
      [] rv.kind \in {"Ref", "Len", "Discriminant", "CopyForDeref"} ->
            pop(visit_place(enter_rvalue_place(v, 0), PlainPlace))
      [] rv.kind \in {"ThreadLocalRef", "NullaryOp"} -> v
      [] rv.kind = "AddressOf" ->
            LET v1 == pop(visit_place(enter_rvalue_place(v, 0), PlainPlace))
            IN IF expect_ty.some
               THEN LET desc == perms_to_desc(expect_ty.lty.ty,
                                              expect_ty.lty.label.perms,
                                              expect_ty.lty.label.flags)
                        v2 == enter_rvalue_operand(v1, 0)
                    IN pop(CASE desc.own = "Cell" -> emit(v2, RawToRef(rv.mutbl))
                             [] desc.own \in {"Imm", "Mut"} -> emit(v2, RawToRef(rv.mutbl))
                             [] OTHER -> v2)
               ELSE v1
      [] rv.kind \in {"BinaryOp", "CheckedBinaryOp"} ->
            LET v1 == pop(visit_operand(enter_rvalue_operand(v, 0), rv.ops[1], NoLTy))
            IN pop(visit_operand(enter_rvalue_operand(v1, 1), rv.ops[2], NoLTy))
      [] rv.kind = "Aggregate" -> visit_operands(v, rv.ops, 0)

\* ExprRewriteVisitor::visit_rvalue
visit_rvalue(v, rv, expect_ty) ==
    CASE rv.kind = "Use" ->
            pop(visit_operand(enter_rvalue_operand(v, 0), rv.ops[1], expect_ty))
      [] rv.kind \in {"Repeat", "Cast", "UnaryOp", "ShallowInitBox"} ->
            pop(visit_operand(enter_rvalue_operand(v, 0), rv.ops[1], NoLTy))
      [] rv.kind \in {"Ref", "Len", "Discriminant", "CopyForDeref"} ->
            pop(visit_place(enter_rvalue_place(v, 0), PlainPlace))
      [] rv.kind \in {"ThreadLocalRef", "NullaryOp"} -> v
      [] rv.kind = "AddressOf" ->
            LET v1 == pop(visit_place(enter_rvalue_place(v, 0), PlainPlace))
            IN IF expect_ty.some
               THEN LET desc == perms_to_desc(expect_ty.lty.ty,
                                              expect_ty.lty.label.perms,
                                              expect_ty.lty.label.flags)
                        v2 == enter_rvalue_operand(v1, 0)
                    IN pop(CASE desc.own = "Cell" -> emit(v2, RawToRef(FALSE))
                             [] desc.own \in {"Imm", "Mut"} -> emit(v2, RawToRef(rv.mutbl))
                             [] OTHER -> v2)
               ELSE v1
      [] rv.kind \in {"BinaryOp", "CheckedBinaryOp"} ->
            LET v1 == pop(visit_operand(enter_rvalue_operand(v, 0), rv.ops[1], NoLTy))
            IN pop(visit_operand(enter_rvalue_operand(v1, 1), rv.ops[2], NoLTy))
      [] rv.kind = "Aggregate" -> visit_operands(v, rv.ops, 0)

\* A plausible slip: the argument is expected at the quantity of the result.
visit_ptr_offset_no_widen(v, op, result_ty) ==
    LET result_desc == perms_to_desc(result_ty.ty, result_ty.label.perms,
                                     result_ty.label.flags)
        v1 == pop(visit_operand_desc(enter_call_arg(v, 0), op, result_desc))
        mutbl == result_desc.own = "Mut"
        v2 == emit(v1, OffsetSlice(mutbl))
    IN IF result_desc.qty = "Single"
       THEN emit(v2, SliceFirst(mutbl))
       ELSE v2

\* A plausible slip: the flag is set for every ownership but Imm.
visit_ptr_offset_mut_unless_imm(v, op, result_ty) ==
    LET result_desc == perms_to_desc(result_ty.ty, result_ty.label.perms,
                                     result_ty.label.flags)
        arg_expect_desc ==
            TypeDesc(result_desc.own,
                     IF result_desc.qty = "OffsetPtr" THEN "OffsetPtr" ELSE "Slice",
                     result_desc.pointee_ty)
        v1 == pop(visit_operand_desc(enter_call_arg(v, 0), op, arg_expect_desc))
        mutbl == result_desc.own # "Imm"
        v2 == emit(v1, OffsetSlice(mutbl))
    IN IF result_desc.qty = "Single"
       THEN emit(v2, SliceFirst(mutbl))
       ELSE v2

\* ExprRewriteVisitor::visit_ptr_offset
visit_ptr_offset(v, op, result_ty) ==
    LET result_desc == perms_to_desc(result_ty.ty, result_ty.label.perms,
                                     result_ty.label.flags)
    IN IF result_desc.qty = "Array"
       THEN panic(v, "perms_to_desc should not return Quantity::Array")
       ELSE LET arg_expect_desc ==
                    TypeDesc(result_desc.own,
                             CASE result_desc.qty = "Single" -> "Slice"
                               [] result_desc.qty = "Slice" -> "Slice"
                               [] result_desc.qty = "OffsetPtr" -> "OffsetPtr",
                             result_desc.pointee_ty)
                v1 == pop(visit_operand_desc(enter_call_arg(v, 0), op, arg_expect_desc))
                mutbl == result_desc.own = "Mut"
                v2 == emit(v1, OffsetSlice(mutbl))
            IN IF result_desc.qty = "Single"
               THEN emit(v2, SliceFirst(mutbl))
               ELSE v2

\* A plausible slip: the quantities are not compared.
visit_slice_as_ptr_own_only(v, op, result_lty) ==
    LET op_lty == type_of(op)
        op_desc == perms_to_desc(op_lty.ty, op_lty.label.perms, op_lty.label.flags)
        result_desc == perms_to_desc(result_lty.ty, result_lty.label.perms,
                                     result_lty.label.flags)
    IN IF op_desc.own = result_desc.own
       THEN emit(v, RemoveAsPtr)
       ELSE v

\* ExprRewriteVisitor::visit_slice_as_ptr
visit_slice_as_ptr(v, op, result_lty) ==
    LET op_lty == type_of(op)
        op_desc == perms_to_desc(op_lty.ty, op_lty.label.perms, op_lty.label.flags)
        result_desc == perms_to_desc(result_lty.ty, result_lty.label.perms,
                                     result_lty.label.flags)
    IN IF op_desc.own = result_desc.own /\ op_desc.qty = result_desc.qty
       THEN emit(v, RemoveAsPtr)
       ELSE v

\* debug_assert!(self.sub_loc.is_empty()), as a debug build runs it.
debug_assert_empty(v) ==
    IF v.sub_loc = <<>> THEN v
    ELSE panic(v, "assertion failed: self.sub_loc.is_empty()")

\* A plausible slip: the cell-read is emitted only into a local that is not a
\* pointer.
visit_assign_get_into_local(v, stmt) ==
    LET pl == stmt.pl
        rv == stmt.rv
    IN IF rv.kind = "Cast" /\ stmt.skip THEN v
       ELSE
       LET pl_lty == type_of(pl)
           local_lty == pl.local.lty
           v1 == IF pl.indirect /\ is_any_ptr(local_lty.ty)
                    /\ perms_to_desc(local_lty.ty, local_lty.label.perms,
                                     local_lty.label.flags).own = "Cell"
                 THEN pop(emit(enter_assign_rvalue(v), CellSet))
                 ELSE v
           v2 == IF rv.kind = "Use"
                    /\ local_perms_to_desc(local_lty.ty, pl.local.addr.perms,
                                           pl.local.addr.flags).own = "Cell"
                 THEN pop(pop(emit(enter_rvalue_operand(enter_assign_rvalue(v1), 0),
                                   CellNew)))
                 ELSE v1
           v3 == IF rv.kind = "Use" /\ rv.ops[1].is_place
                    /\ ~pl.indirect /\ ~is_any_ptr(local_lty.ty)
                    /\ rv.ops[1].place.indirect
                    /\ is_any_ptr(rv.ops[1].place.local.lty.ty)
                    /\ "CELL" \in rv.ops[1].place.local.lty.label.flags
                 THEN pop(pop(emit(enter_rvalue_operand(enter_assign_rvalue(v2), 0),
                                   CellGet)))
                 ELSE v2
           rv_lty == stmt.rv_lty
           v4 == pop(visit_rvalue(enter_assign_rvalue(v3), rv, SomeLTy(rv_lty)))
           v5 == emit_cast_lty_lty(v4, rv_lty, pl_lty)
       IN pop(visit_place(enter_dest(v5), pl))

\* The Assign case of visit_statement.
visit_assign(v, stmt) ==
    LET pl == stmt.pl
        rv == stmt.rv
    IN IF rv.kind = "Cast" /\ stmt.skip THEN v
       ELSE
       LET pl_lty == type_of(pl)
           local_lty == pl.local.lty
           v1 == IF pl.indirect /\ is_any_ptr(local_lty.ty)
                    /\ perms_to_desc(local_lty.ty, local_lty.label.perms,
                                     local_lty.label.flags).own = "Cell"
                 THEN pop(emit(enter_assign_rvalue(v), CellSet))
                 ELSE v
           v2 == IF rv.kind = "Use"
                    /\ local_perms_to_desc(local_lty.ty, pl.local.addr.perms,
                                           pl.local.addr.flags).own = "Cell"
                 THEN pop(pop(emit(enter_rvalue_operand(enter_assign_rvalue(v1), 0),
                                   CellNew)))
                 ELSE v1
           v3 == IF rv.kind = "Use" /\ rv.ops[1].is_place
                    /\ rv.ops[1].place.indirect
                    /\ is_any_ptr(rv.ops[1].place.local.lty.ty)
                    /\ "CELL" \in rv.ops[1].place.local.lty.label.flags
                 THEN pop(pop(emit(enter_rvalue_operand(enter_assign_rvalue(v2), 0),
                                   CellGet)))
                 ELSE v2
           rv_lty == stmt.rv_lty
           v4 == pop(visit_rvalue(enter_assign_rvalue(v3), rv, SomeLTy(rv_lty)))
           v5 == emit_cast_lty_lty(v4, rv_lty, pl_lty)
       IN pop(visit_place(enter_dest(v5), pl))

\* A plausible slip: the statements without a case are passed over.
visit_statement_pass_over(v0, stmt, l) ==
    LET v == debug_assert_empty([v0 EXCEPT !.loc = l])
    IN IF stmt.kind = "Assign" THEN visit_assign(v, stmt) ELSE v

\* ExprRewriteVisitor::visit_statement
visit_statement(v0, stmt, l) ==
    LET v == debug_assert_empty([v0 EXCEPT !.loc = l])
    IN CASE stmt.kind = "Assign" -> visit_assign(v, stmt)
         [] stmt.kind \in {"SetDiscriminant", "CopyNonOverlapping"} ->
                panic(v, "not yet implemented: statement " \o stmt.kind)
         [] OTHER -> v

\* ExprRewriteVisitor::visit_terminator
visit_terminator(v0, term, l) ==
    LET v == debug_assert_empty([v0 EXCEPT !.loc = l])
    IN CASE term.kind = "Call" ->
                (CASE term.func = "PtrOffset" ->
                        visit_ptr_offset(v, term.args[1], type_of(term.pl))
                   [] term.func = "SliceAsPtr" ->
                        visit_slice_as_ptr(v, term.args[1], type_of(term.pl))
                   [] OTHER -> v)
         [] term.kind = "InlineAsm" ->
                panic(v, "not yet implemented: terminator " \o term.kind)
         [] OTHER -> v

IdleAnnot ==
    /\ cur = NoInstr
    /\ pos = Location(0, 0)
    /\ nvisited = 0
    /\ self_loc = Location(0, 0)
    /\ self_sub_loc = <<>>
    /\ rewrites = EmptyRewrites
    /\ diags = <<>>
    /\ casts = <<>>
    /\ status = "idle"
    /\ failure = ""

(***************************************************************************)
(* panic_detail.rs: the recorder of the latest panic and the current span. *)
(* An Option is a sequence: <<>> is None and <<x>> is Some(x).             *)
(***************************************************************************)
DUMMY_SP == 0

\* struct PanicDetail
PanicDetail(msg, loc, relevant_loc, backtrace, span) ==
    [msg |-> msg, loc |-> loc, relevant_loc |-> relevant_loc,
     backtrace |-> backtrace, span |-> span]

\* PanicDetail::new
PanicDetailNew(msg) == PanicDetail(msg, <<>>, <<>>, <<>>, DUMMY_SP)

\* panic_to_string: the payload is a &'static str, a String or anything else.
panic_to_string(e) ==
    IF e.type \in {"&str", "String"} THEN e.text ELSE "unknown error: TypeId"

\* A plausible slip: a detail already stored is kept.
panic_hook_keep_old(cell, span, info) ==
    LET detail == PanicDetail(panic_to_string(info.payload), info.location,
                              info.relevant_loc, <<info.backtrace>>, span)
    IN [cell |-> IF cell # <<>> THEN cell ELSE <<detail>>,
        warned |-> IF cell # <<>> THEN {"discarding old panic detail"} ELSE {}]

\* panic_hook(info), with CURRENT_PANIC_DETAIL = cell and CURRENT_SPAN = span;
\* relevant_loc is what guess_relevant_loc makes of the backtrace.
panic_hook(cell, span, info) ==
    LET detail == PanicDetail(panic_to_string(info.payload), info.location,
                              info.relevant_loc, <<info.backtrace>>, span)
    IN [cell |-> <<detail>>,
        warned |-> IF cell # <<>> THEN {"discarding old panic detail"} ELSE {}]

\* take_current: Cell::take
take_current(cell) == [ret |-> cell, cell |-> <<>>]

\* The map_err closure of catch_unwind, run on the Box e of the payload that
\* std::panic::catch_unwind caught.  panic_to_string(&e) is given the
\* reference to the Box, which unsizes to the dyn Any of the Box itself and
\* not of the payload in it: neither downcast succeeds.
catch_unwind(cell, e) ==
    LET taken == take_current(cell)
    IN IF taken.ret # <<>>
       THEN [ret |-> taken.ret[1], cell |-> taken.cell, warned |-> {}]
       ELSE [ret |-> PanicDetailNew(panic_to_string([type |-> "Box<dyn Any + Send>",
                                                     text |-> e.text])),
             cell |-> taken.cell,
             warned |-> {"missing panic detail; caught message"}]

\* A plausible slip: the guard keeps the span that was set.
set_current_span_keep_new(cell, span) == [cell |-> span, guard |-> [old |-> span]]

\* set_current_span: Cell::replace, and the guard that holds the old span.
set_current_span(cell, span) == [cell |-> span, guard |-> [old |-> cell]]

\* What an operation returned: a value r, or an Option of a PanicDetail.
Returned(op, ok, r, detail) == [op |-> op, ok |-> ok, r |-> r, detail |-> detail]

IdlePanic ==
    /\ current_panic_detail = <<>>
    /\ current_span = DUMMY_SP
    /\ frames = <<>>
    /\ in_flight = <<>>
    /\ ret = Returned("-", TRUE, "-", <<>>)
    /\ warned = {}
    /\ recent = <<>>

(***************************************************************************)
(* rewrite/mod.rs: enum Rewrite.  Every node is a record of the same       *)
(* shape: k the variant, m the Mutability ("Not", "Mut", or "-" where the  *)
(* variant has none), i the index of Sub, s the String of PrintTy/TyCtor,  *)
(* args the boxed children in declaration order.                           *)
(***************************************************************************)
Node(k, m, i, s, args) == [k |-> k, m |-> m, i |-> i, s |-> s, args |-> args]

Identity == Node("Identity", "-", 0, "", <<>>)
Sub(i) == Node("Sub", "-", i, "", <<>>)
Ref(r, m) == Node("Ref", m, 0, "", <<r>>)
AddrOf(r, m) == Node("AddrOf", m, 0, "", <<r>>)
Deref(r) == Node("Deref", "-", 0, "", <<r>>)
Index(arr, idx) == Node("Index", "-", 0, "", <<arr, idx>>)
SliceTail(arr, idx) == Node("SliceTail", "-", 0, "", <<arr, idx>>)
CastUsize(r) == Node("CastUsize", "-", 0, "", <<r>>)
LitZero == Node("LitZero", "-", 0, "", <<>>)
PrintTy(s) == Node("PrintTy", "-", 0, s, <<>>)
TyPtr(r, m) == Node("TyPtr", m, 0, "", <<r>>)
TyRef(r, m) == Node("TyRef", m, 0, "", <<r>>)
TySlice(r) == Node("TySlice", "-", 0, "", <<r>>)
TyCtor(name, rws) == Node("TyCtor", "-", 0, name, rws)

\* parenthesize_if(cond, f, inner): "(" inner ")" when cond, else inner.
parenthesize_if(cond, inner) == IF cond THEN "(" \o inner \o ")" ELSE inner

\* A plausible slip: `>=` for `>` in the conditions handed to parenthesize_if.
ParenCondGe(k, prec) ==
    CASE k \in {"Ref", "Deref"} -> prec >= 2
      [] k \in {"Index", "SliceTail"} -> prec >= 3
      [] k = "CastUsize" -> prec >= 1
      [] OTHER -> FALSE

\* The condition each builder hands to parenthesize_if, given the precedence
\* of the surrounding context.  The other variants never call it.
ParenCond(k, prec) ==
    CASE k \in {"Ref", "Deref"} -> prec > 2
      [] k \in {"Index", "SliceTail"} -> prec > 3
      [] k = "CastUsize" -> prec > 1
      [] OTHER -> FALSE

\* A plausible slip: SliceTail prints its index as Index does, at precedence 0.
ChildPrecTailAsIndex(k, j) ==
    CASE k \in {"Ref", "Deref"} -> 2
      [] k \in {"Index", "SliceTail"} -> IF j = 1 THEN 3 ELSE 0
      [] k = "CastUsize" -> 1
      [] OTHER -> 0

\* A plausible slip: AddrOf prints its argument as Ref does, at precedence 2.
ChildPrecAddrOfAsRef(k, j) ==
    CASE k \in {"Ref", "Deref", "AddrOf"} -> 2
      [] k = "Index" -> IF j = 1 THEN 3 ELSE 0
      [] k = "SliceTail" -> IF j = 1 THEN 3 ELSE 999
      [] k = "CastUsize" -> 1
      [] OTHER -> 0

\* The precedence pretty passes to the recursive call for child j of a k node.
ChildPrec(k, j) ==
    CASE k \in {"Ref", "Deref"} -> 2
      [] k = "Index" -> IF j = 1 THEN 3 ELSE 0
      [] k = "SliceTail" -> IF j = 1 THEN 3 ELSE 999
      [] k = "CastUsize" -> 1
      [] OTHER -> 0

\* The text of the loop `for rw in rws { rw.pretty(f, 0)?; }` given the
\* texts of the elements.
RECURSIVE ConcatAll(_)
ConcatAll(ss) == IF ss = <<>> THEN "" ELSE Head(ss) \o ConcatAll(Tail(ss))

\* Rewrite::pretty(&self, f, prec): the text written to f.
RECURSIVE pretty(_, _)
pretty(t, prec) ==
    LET child(j) == pretty(t.args[j], ChildPrec(t.k, j))
    IN CASE t.k = "Identity" -> "$e"
         [] t.k = "Sub" -> "$" \o ToString(t.i)
         [] t.k = "Ref" ->
               parenthesize_if(ParenCond(t.k, prec),
                   (IF t.m = "Not" THEN "&" ELSE "&mut ") \o child(1))
         [] t.k = "AddrOf" ->
               (IF t.m = "Not" THEN "core::ptr::addr_of!"
                               ELSE "core::ptr::addr_of_mut!")
                   \o "(" \o child(1) \o ")"
         [] t.k = "Deref" ->
               parenthesize_if(ParenCond(t.k, prec), "*" \o child(1))
         [] t.k = "Index" ->
               parenthesize_if(ParenCond(t.k, prec),
                   child(1) \o "[" \o child(2) \o "]")
         [] t.k = "SliceTail" ->
               parenthesize_if(ParenCond(t.k, prec),
                   child(1) \o "[" \o child(2) \o " ..]")
         [] t.k = "CastUsize" ->
               parenthesize_if(ParenCond(t.k, prec), child(1) \o " as usize")
         [] t.k = "LitZero" -> "0"
         [] t.k = "PrintTy" -> t.s
         [] t.k = "TyPtr" ->
               (IF t.m = "Not" THEN "*const " ELSE "*mut ") \o child(1)
         [] t.k = "TyRef" ->
               (IF t.m = "Not" THEN "&" ELSE "&mut ") \o child(1)
         [] t.k = "TySlice" -> "[" \o child(1) \o "]"
         [] t.k = "TyCtor" ->
               t.s \o "<" \o ConcatAll([j \in 1..Len(t.args) |-> child(j)]) \o ">"

\* impl fmt::Display for Rewrite: pretty with an ambient precedence of 0.
Display(t) == pretty(t, 0)

(***************************************************************************)
(* Inputs of the pretty-printer.  A Rewrite value is constructed top-down: *)
(* rw starts as a hole, and each construction step puts one variant in the *)
(* leftmost hole (its boxed children being new holes).  Every expression   *)
(* Rewrite with at most MaxSize nodes other than Identity is constructed.  *)
(***************************************************************************)
MaxSize == 3

Hole == Node("Hole", "-", 0, "", <<>>)

RECURSIVE HasHole(_)
HasHole(t) == t.k = "Hole" \/ \E j \in 1..Len(t.args) : HasHole(t.args[j])

\* The number of nodes of t other than Identity leaves and holes.
RECURSIVE SumSize(_)
RECURSIVE Size(_)
Size(t) == (IF t.k \in {"Identity", "Hole"} THEN 0 ELSE 1) + SumSize(t.args)
SumSize(ts) == IF ts = <<>> THEN 0 ELSE Size(Head(ts)) + SumSize(Tail(ts))

\* t with its leftmost hole replaced by c.
RECURSIVE FillFirst(_, _)
FillFirst(t, c) ==
    IF t.k = "Hole" THEN c
    ELSE IF ~HasHole(t) THEN t
    ELSE LET j == CHOOSE j \in 1..Len(t.args) :
                    /\ HasHole(t.args[j])
                    /\ \A h \in 1..(j - 1) : ~HasHole(t.args[h])
         IN [t EXCEPT !.args[j] = FillFirst(t.args[j], c)]

\* The expression variants of enum Rewrite, children not yet constructed.
ExprVariants ==
    {Identity, Sub(1), LitZero,
     Ref(Hole, "Not"), Ref(Hole, "Mut"), AddrOf(Hole, "Not"), AddrOf(Hole, "Mut"),
     Deref(Hole), CastUsize(Hole), Index(Hole, Hole), SliceTail(Hole, Hole)}

IdlePretty ==
    /\ rw = Hole
    /\ out = ""
    /\ printed = FALSE

\* Construction of one node of the Rewrite value (Box::new(Rewrite::...)).
Construct ==
    /\ HasHole(rw)
    /\ \E c \in ExprVariants :
          /\ Size(FillFirst(rw, c)) <= MaxSize
          /\ rw' = FillFirst(rw, c)
    /\ UNCHANGED <<out, printed>>
    /\ UNCHANGED <<unlowerVars, annotVars, panicVars>>

\* rw.to_string(): Display::fmt writes the text of rw.
ToStringStep ==
    /\ ~HasHole(rw)
    /\ ~printed
    /\ out' = Display(rw)
    /\ printed' = TRUE
    /\ UNCHANGED rw
    /\ UNCHANGED <<unlowerVars, annotVars, panicVars>>

(***************************************************************************)
(* rewrite/expr/unlower.rs                                                 *)
(***************************************************************************)
\* struct MirOrigin { hir_id, span, desc }, desc one of MirOriginDesc::Expr
\* and MirOriginDesc::StoreIntoLocal.
MirOrigin(hir_id, span, desc) == [hir_id |-> hir_id, span |-> span, desc |-> desc]

EmptyMap == [key \in {} |-> 0]

\* The spans of the source text.  Spans are only ever compared for equality,
\* so bodies and expressions are taken up to a renaming of spans: the root
\* expression has span 1, and a span first used is the least one unused.
Spans == {1, 2}

\* The state of an UnlowerVisitor that the recording changes: its map and
\* what it has logged, and with them the history of the calls of record_desc.
Visitor(map, errs, warns, history) ==
    [mir_map |-> map, conflicts |-> errs, warnings |-> warns, calls |-> history]

\* One call of record_desc, as kept in the history.
RecordCall(loc, sub_loc, ex, desc) ==
    [loc |-> loc, sub_loc |-> sub_loc,
     ex |-> [hir_id |-> ex.hir_id, span |-> ex.span], desc |-> desc]

\* A plausible slip: the occupied entry is overwritten by the later origin.
record_desc_overwrite(v0, loc, sub_loc, ex, desc) ==
    LET origin == MirOrigin(ex.hir_id, ex.span, desc)
        key == <<loc, sub_loc>>
        v == [v0 EXCEPT !.calls = Append(v0.calls, RecordCall(loc, sub_loc, ex, desc))]
    IN IF key \notin DOMAIN v.mir_map
       THEN [v EXCEPT !.mir_map = (key :> origin) @@ v.mir_map]
       ELSE IF v.mir_map[key] # origin
            THEN [v EXCEPT !.mir_map = (key :> origin) @@ v.mir_map,
                           !.conflicts = Append(v.conflicts,
                               [loc |-> loc, sub_loc |-> sub_loc,
                                origin1 |-> origin, origin2 |-> v.mir_map[key]])]
            ELSE v

\* UnlowerVisitor::record_desc: insert into a vacant entry; on an occupied
\* entry log an error when the origins differ, and leave the map alone.
record_desc(v0, loc, sub_loc, ex, desc) ==
    LET origin == MirOrigin(ex.hir_id, ex.span, desc)
        key == <<loc, sub_loc>>
        v == [v0 EXCEPT !.calls = Append(v0.calls, RecordCall(loc, sub_loc, ex, desc))]
    IN IF key \notin DOMAIN v.mir_map
       THEN [v EXCEPT !.mir_map = (key :> origin) @@ v.mir_map]
       ELSE IF v.mir_map[key] # origin
            THEN [v EXCEPT !.conflicts = Append(v.conflicts,
                               [loc |-> loc, sub_loc |-> sub_loc,
                                origin1 |-> origin, origin2 |-> v.mir_map[key]])]
            ELSE v

\* A plausible slip: the sub-location path is dropped.
record_no_path(v, loc, sub_loc, ex) == record_desc(v, loc, <<>>, ex, "Expr")

\* UnlowerVisitor::record
record(v, loc, sub_loc, ex) == record_desc(v, loc, sub_loc, ex, "Expr")

IdleUnlower ==
    /\ mir = <<>>
    /\ pending = <<>>
    /\ created = 0
    /\ visited = [sp \in Spans |-> 0]
    /\ mir_map = EmptyMap
    /\ conflicts = <<>>
    /\ warnings = <<>>
    /\ calls = <<>>
    /\ last_expr = [ex |-> [hir_id |-> 0, span |-> 0, kind |-> "-"], kids |-> <<>>]

(***************************************************************************)
(* record/record_desc called directly, with any arguments, up to           *)
(* MaxRecords times.                                                       *)
(***************************************************************************)
MaxRecords == 3

\* record_desc is handed a location, a path, a HIR expression (hir_id and
\* span) and a MirOriginDesc.
RecordStep ==
    /\ Len(calls) < MaxRecords
    /\ \E loc \in {Location(0, 0), Location(0, 1)},
          sub_loc \in {<<>>, <<Rvalue>>},
          ex \in {[hir_id |-> 1, span |-> 1], [hir_id |-> 2, span |-> 2]},
          desc \in {"Expr", "StoreIntoLocal"} :
          LET v == record_desc(Visitor(mir_map, conflicts, warnings, calls),
                               loc, sub_loc, ex, desc)
          IN /\ mir_map' = v.mir_map
             /\ conflicts' = v.conflicts
             /\ calls' = v.calls
    /\ UNCHANGED <<mir, pending, created, visited, warnings, last_expr>>
    /\ UNCHANGED <<prettyVars, annotVars, panicVars>>

\* Nothing has been constructed, recorded, visited or called yet.
InitIdle == IdlePretty /\ IdleUnlower /\ IdleAnnot /\ IdlePanic

SpecRecord == InitIdle /\ [][RecordStep]_vars

(***************************************************************************)
(* unlower over a MIR body and the HIR of the same function.               *)
(*                                                                         *)
(* A MIR instruction is [kind, span, is_var, nargs]: kind the              *)
(* StatementKind or TerminatorKind, span its source_info.span, is_var      *)
(* whether the destination of an Assign or Call has no projection, nargs   *)
(* the number of argument operands of a Call.  A HIR expression is         *)
(* [hir_id, span, kind]; its children are drawn when it is visited.        *)
(***************************************************************************)
MaxLocs == 2
MaxExprs == 3

Instr(kind, span, is_var, nargs) ==
    [kind |-> kind, span |-> span, is_var |-> is_var, nargs |-> nargs]

StatementKinds == {"Assign", "StorageDead"}
TerminatorKinds == {"Call"}

\* The instructions: a Call has one operand, or two when it carries the
\* first span, that of the root expression (the operands of a Call that
\* stores through a projection are never read).
Instrs ==
    {Instr("Assign", sp, var, 0) : sp \in Spans, var \in BOOLEAN}
    \cup {Instr("Call", sp, var, 1) : sp \in Spans, var \in BOOLEAN}
    \cup {Instr("Call", 1, TRUE, 2)}
    \cup {Instr("StorageDead", sp, TRUE, 0) : sp \in Spans}

\* The least span not in used (or the last span, when all are used).
RECURSIVE FreshSpan(_, _)
FreshSpan(used, sp) ==
    IF sp \in used /\ sp + 1 \in Spans THEN FreshSpan(used, sp + 1) ELSE sp

\* The spans in ss, in order, are each one already used or the least unused.
RECURSIVE LeastFresh(_, _)
LeastFresh(ss, used) ==
    \/ ss = <<>>
    \/ /\ Head(ss) \in used \cup {FreshSpan(used, 1)}
       /\ LeastFresh(Tail(ss), used \cup {Head(ss)})

\* The bodies: every sequence of at most MaxLocs instructions.
Bodies ==
    UNION {{b \in [1..n -> Instrs] : LeastFresh([i \in 1..n |-> b[i].span], {1})} :
           n \in 0..MaxLocs}

\* The Location of instruction i of body b: a block ends with its terminator.
LocOf(b, i) ==
    LET terms == {j \in 1..(i - 1) : b[j].kind \in TerminatorKinds}
        start == IF terms = {} THEN 0
                 ELSE CHOOSE j \in terms : \A h \in terms : h <= j
    IN Location(Cardinality(terms), i - start - 1)

\* The index in b of the instruction at loc (Body::stmt_at).
IndexOfLoc(b, loc) == CHOOSE i \in 1..Len(b) : LocOf(b, i) = loc

\* SpanIndex::lookup_exact over build_span_index(mir): the locations whose
\* instruction carries exactly this span, in program order.
lookup_exact(b, span) ==
    LET idx == SelectSeq([i \in 1..Len(b) |-> i], LAMBDA i : b[i].span = span)
    IN [j \in 1..Len(idx) |-> LocOf(b, idx[j])]

\* UnlowerVisitor::should_ignore_statement
should_ignore_statement(b, loc) ==
    b[IndexOfLoc(b, loc)].kind \in {"FakeRead", "StorageLive", "StorageDead", "Nop"}

\* Option: None, or Some of a location.
None == [some |-> FALSE, loc |-> Location(0, 0)]
Some(loc) == [some |-> TRUE, loc |-> loc]

\* A plausible slip: the first location is tested, not the last.
get_last_assign_first(b, locs) ==
    IF locs = <<>> THEN None
    ELSE LET loc == locs[1]
         IN IF b[IndexOfLoc(b, loc)].kind = "Assign" THEN Some(loc) ELSE None

\* UnlowerVisitor::get_last_assign
get_last_assign(b, locs) ==
    IF locs = <<>> THEN None
    ELSE LET loc == locs[Len(locs)]
         IN IF b[IndexOfLoc(b, loc)].kind = "Assign" THEN Some(loc) ELSE None

\* A plausible slip: the last of several locations will do.
get_sole_assign_any_count(b, locs) == get_last_assign(b, locs)

\* UnlowerVisitor::get_sole_assign
get_sole_assign(b, locs) ==
    IF Len(locs) # 1 THEN None ELSE get_last_assign(b, locs)

\* UnlowerVisitor::get_last_call
get_last_call(b, locs) ==
    IF locs = <<>> THEN None
    ELSE LET loc == locs[Len(locs)]
         IN IF b[IndexOfLoc(b, loc)].kind = "Call" THEN Some(loc) ELSE None

\* A plausible slip: a projected destination passes for a variable.
is_var_projected_too(b, loc) == TRUE

\* UnlowerVisitor::is_var, of the destination of the instruction at loc.
is_var(b, loc) == b[IndexOfLoc(b, loc)].is_var

\* A plausible slip: every argument is recorded at the path of the first.
RECURSIVE record_args_first_index(_, _, _, _, _)
record_args_first_index(v, loc, args, n_mir_args, i) ==
    IF i >= Len(args) \/ i >= n_mir_args THEN v
    ELSE record_args_first_index(record(v, loc, <<Rvalue, CallArg(0)>>, args[i + 1]),
                                 loc, args, n_mir_args, i + 1)

\* The loop over args.iter().zip(mir_args).enumerate() of the Call case,
\* from index i on.
RECURSIVE record_args(_, _, _, _, _)
record_args(v, loc, args, n_mir_args, i) ==
    IF i >= Len(args) \/ i >= n_mir_args THEN v
    ELSE record_args(record(v, loc, <<Rvalue, CallArg(i)>>, args[i + 1]),
                     loc, args, n_mir_args, i + 1)

warn(v, desc) == [v EXCEPT !.warnings = Append(v.warnings, desc)]

\* UnlowerVisitor::visit_expr_inner(ex), kids the children of ex in source
\* order (Assign: pl, rv; Call: callee, args...; MethodCall: args...).
visit_expr_inner(v, b, ex, kids) ==
    LET found == lookup_exact(b, ex.span)
        locs == SelectSeq(found, LAMBDA loc : ~should_ignore_statement(b, loc))
    IN IF Len(locs) = 0 THEN v
       ELSE CASE ex.kind = "Assign" ->
                   LET x == get_sole_assign(b, locs)
                   IN IF ~x.some
                      THEN warn(v, "expected exactly one StatementKind::Assign")
                      ELSE LET v1 == record(v, x.loc, <<>>, ex)
                               v2 == record(v1, x.loc, <<Dest>>, kids[1])
                           IN record(v2, x.loc, <<Rvalue>>, kids[2])
              [] ex.kind \in {"Call", "MethodCall"} ->
                   LET x == get_last_call(b, locs)
                       args == IF ex.kind = "Call" THEN Tail(kids) ELSE kids
                   IN IF ~(x.some /\ is_var(b, x.loc))
                      THEN warn(v, "expected final Call to store into var")
                      ELSE LET v1 == record_desc(v, x.loc, <<>>, ex, "StoreIntoLocal")
                               v2 == record(v1, x.loc, <<Rvalue>>, ex)
                               v3 == record_args(v2, x.loc, args,
                                                 b[IndexOfLoc(b, x.loc)].nargs, 0)
                           IN IF Len(locs) > 1
                              THEN warn(v3, "NYI: extra locations in Call")
                              ELSE v3
              [] OTHER ->
                   LET x == get_last_assign(b, locs)
                   IN IF ~(x.some /\ is_var(b, x.loc))
                      THEN warn(v, "expected final Assign to store into var")
                      ELSE LET v1 == record_desc(v, x.loc, <<>>, ex, "StoreIntoLocal")
                           IN record(v1, x.loc, <<Rvalue>>, ex)

HirExpr(hir_id, span, kind) == [hir_id |-> hir_id, span |-> span, kind |-> kind]

\* The fewest children an expression of this kind has: Assign(pl, rv),
\* Call(callee, args), MethodCall(receiver and further args).
MinKids(kind) ==
    CASE kind = "Assign" -> 2
      [] kind = "Call" -> 1
      [] kind = "MethodCall" -> 1
      [] OTHER -> 0

\* An expression not yet visited: its hir_id and span; its kind and its
\* children are drawn when it is visited.
Unvisited(hir_id, span) == [hir_id |-> hir_id, span |-> span]

\* The children an expression may have: n expressions with the next
\* hir_ids, at most two and at most room of them.
KidLists(kind, first_id, room, used) ==
    UNION {{[j \in 1..n |-> Unvisited(first_id + j - 1, sp[j])] :
                sp \in {f \in [1..n -> Spans] : LeastFresh(f, used)}} :
           n \in MinKids(kind)..(IF 2 < room THEN 2 ELSE room)}

\* unlower(tcx, mir, hir_body_id) up to the first visit_expr: a body and the
\* root expression of its HIR.  The body of an item whose parent has the
\* attribute automatically_derived is ignored: the map is returned empty and
\* nothing is visited.
InitUnlower ==
    /\ IdlePretty
    /\ IdlePanic
    /\ IdleAnnot
    /\ mir \in Bodies
    /\ \E automatically_derived \in BOOLEAN :
          pending = IF automatically_derived THEN <<>> ELSE <<Unvisited(1, 1)>>
    /\ created = 1
    /\ visited = [sp \in Spans |-> 0]
    /\ mir_map = EmptyMap
    /\ conflicts = <<>>
    /\ warnings = <<>>
    /\ calls = <<>>
    /\ last_expr = [ex |-> [hir_id |-> 0, span |-> 0, kind |-> "-"], kids |-> <<>>]

\* Visitor::visit_expr(ex): visit_expr_inner(ex), then walk_expr(ex), which
\* visits the children of ex before what follows ex: the right-hand side of
\* an Assign before its destination, the children of the other kinds in
\* source order.
VisitExpr ==
    /\ pending # <<>>
    /\ LET used == {mir[i].span : i \in 1..Len(mir)}
                       \cup {sp \in Spans : visited[sp] > 0}
                       \cup {pending[i].span : i \in 1..Len(pending)}
       IN \E kd \in {"Assign", "Call", "MethodCall", "Other"} :
          \E kids \in KidLists(kd, created + 1, MaxExprs - created, used) :
             /\ \E v \in {visit_expr_inner(Visitor(mir_map, conflicts, warnings, calls),
                                            mir,
                                            HirExpr(Head(pending).hir_id,
                                                    Head(pending).span, kd),
                                            kids)} :
                   /\ mir_map' = v.mir_map
                   /\ conflicts' = v.conflicts
                   /\ warnings' = v.warnings
                   /\ calls' = v.calls
             /\ last_expr' = [ex |-> HirExpr(Head(pending).hir_id,
                                              Head(pending).span, kd),
                               kids |-> kids]
             /\ pending' = (IF kd = "Assign" THEN <<kids[2], kids[1]>> ELSE kids)
                                \o Tail(pending)
             /\ created' = created + Len(kids)
             /\ visited' = [visited EXCEPT ![Head(pending).span] = @ + 1]
    /\ UNCHANGED mir
    /\ UNCHANGED <<prettyVars, annotVars, panicVars>>

SpecUnlower == InitUnlower /\ [][VisitExpr]_vars

(***************************************************************************)
(* gen_mir_rewrites over a body: the loops take the statements of a block  *)
(* and then its terminator, block after block; the instructions of the     *)
(* body are drawn as the loops reach them.                                 *)
(***************************************************************************)
MaxInstrs == 2

\* gen_mir_rewrites up to the loops: an empty map, a new visitor.
InitAnnot ==
    /\ IdlePretty
    /\ IdlePanic
    /\ IdleUnlower
    /\ cur = NoInstr
    /\ pos = Location(0, 0)
    /\ nvisited = 0
    /\ self_loc = Location(0, 0)
    /\ self_sub_loc = <<>>
    /\ rewrites = EmptyRewrites
    /\ diags = <<>>
    /\ casts = <<>>
    /\ status = "loop"
    /\ failure = ""

\* The visitor after a call of one of its methods.
VisitorAfter(v) ==
    /\ self_loc' = v.loc
    /\ self_sub_loc' = v.sub_loc
    /\ rewrites' = v.rewrites
    /\ diags' = v.diags
    /\ casts' = v.casts
    /\ failure' = v.failure
    /\ status' = IF v.status = "aborted" THEN "aborted" ELSE "visited"

\* v.visit_statement(stmt, loc)
VisitStatement ==
    /\ status = "visit"
    /\ cur.kind \in MirStatementKinds
    /\ VisitorAfter(visit_statement(
           RewriteVisitor(self_loc, self_sub_loc, rewrites, diags, casts, status, failure),
           cur, pos))
    /\ nvisited' = nvisited + 1
    /\ UNCHANGED <<cur, pos>>
    /\ UNCHANGED <<prettyVars, unlowerVars, panicVars>>

\* v.visit_terminator(term, loc)
VisitTerminator ==
    /\ status = "visit"
    /\ cur.kind \in MirTerminatorKinds
    /\ VisitorAfter(visit_terminator(
           RewriteVisitor(self_loc, self_sub_loc, rewrites, diags, casts, status, failure),
           cur, pos))
    /\ nvisited' = nvisited + 1
    /\ UNCHANGED <<cur, pos>>
    /\ UNCHANGED <<prettyVars, unlowerVars, panicVars>>

\* The loops go on: after a statement to the next index of the block, after
\* a terminator to the next block.
Advance ==
    /\ status = "visited"
    /\ pos' = IF cur.kind \in MirTerminatorKinds
              THEN Location(pos[1] + 1, 0)
              ELSE Location(pos[1], pos[2] + 1)
    /\ cur' = NoInstr
    /\ status' = "loop"
    /\ UNCHANGED <<nvisited, self_loc, self_sub_loc, rewrites, diags, casts, failure>>
    /\ UNCHANGED <<prettyVars, unlowerVars, panicVars>>

\* The body ends; gen_mir_rewrites returns the map.
Return ==
    /\ status = "loop"
    /\ status' = "done"
    /\ UNCHANGED <<cur, pos, nvisited, self_loc, self_sub_loc, rewrites, diags, casts, failure>>
    /\ UNCHANGED <<prettyVars, unlowerVars, panicVars>>

(***************************************************************************)
(* The instructions a body is drawn from.                                  *)
(***************************************************************************)
\* The label of a pointer that perms_to_desc resolves to (own, qty).
LabelOf(own, qty) ==
    Label((IF own \in {"Mut", "Cell"} THEN {"WRITE"} ELSE {})
            \cup (CASE qty = "Single" -> {}
                    [] qty = "Slice" -> {"OFFSET_ADD"}
                    [] qty = "OffsetPtr" -> {"OFFSET_ADD", "OFFSET_SUB"}),
          IF own = "Cell" THEN {"CELL"} ELSE {})

AllLabels ==
    {LabelOf(own, qty) : own \in {"Imm", "Mut", "Cell"},
                         qty \in {"Single", "Slice", "OffsetPtr"}}

RawPtrLTys(labels, pointees) ==
    {LTy(Ty("RawPtr", pt, "erased"), l) : pt \in pointees, l \in labels}

\* A safe reference, as code that is already safe has them.
RefLTy == LTy(Ty("Ref", "T", "erased"), LabelOf("Imm", "Single"))

\* The places over some locals: a local, the dereference of a local that is
\* a pointer, or the dereference of a pointer field of a local that is not,
\* the field being a Mut or a Cell pointer.
PlacesOf(locals) ==
    {Place(l, FALSE, l.lty, NonPtrLTy) : l \in locals}
    \cup {Place(l, TRUE, NonPtrLTy, l.lty) : l \in {k \in locals : is_any_ptr(k.lty.ty)}}
    \cup {Place(l, TRUE, NonPtrLTy, f) :
            l \in {k \in locals : ~is_any_ptr(k.lty.ty)},
            f \in RawPtrLTys({LabelOf("Mut", "Single"), LabelOf("Cell", "Single")},
                             {"T"})}

RvaluesOf(operands, kinds) ==
    {Rv("Use", <<op>>, FALSE) : op \in operands}
    \cup {Rv("AddressOf", <<>>, m) : m \in BOOLEAN}
    \cup {Rv(k, <<Copy(PlainPlace)>>, FALSE) : k \in kinds \cap {"Cast", "UnaryOp"}}
    \cup {Rv(k, <<Copy(PlainPlace), Constant>>, FALSE) :
            k \in kinds \cap {"BinaryOp", "Aggregate"}}
    \cup {Rv(k, <<>>, FALSE) : k \in kinds \cap {"Ref", "Len", "NullaryOp"}}

\* The parts instructions are made of: the locals have a type that is not a
\* pointer (and an address pointer of addrs) or one of ptr_ltys; rv_ltys are
\* the pointer types of right-hand sides; kinds are the further kinds of
\* Rvalue, and others the kinds of instruction besides Assign and Call.
AlphabetOf(addrs, ptr_ltys, rv_ltys, kinds, others) ==
    LET locals == {Local(NonPtrLTy, a) : a \in addrs}
                    \cup {Local(t, PlainAddr) : t \in ptr_ltys}
        places == PlacesOf(locals)
    IN [places |-> places,
        rvalues |-> RvaluesOf({Constant} \cup {Copy(pl) : pl \in places}, kinds),
        rv_ltys |-> rv_ltys,
        ptr_places |-> {pl \in places : ~pl.indirect /\ pl.lty.ty.kind = "RawPtr"},
        others |-> others]

\* One instruction, of any label; the safe references are Imm or Mut.
AllAlphabet ==
    AlphabetOf({PlainAddr, Label({"WRITE"}, {"CELL"})},
               RawPtrLTys(AllLabels, {"T", "U"})
                   \cup {RefLTy, LTy(RefLTy.ty, LabelOf("Mut", "Single"))},
               RawPtrLTys(AllLabels, {"T", "U"})
                   \cup {RefLTy, LTy(RefLTy.ty, LabelOf("Mut", "Single"))},
               {"Cast", "UnaryOp", "BinaryOp", "Aggregate", "Ref", "Len", "NullaryOp"},
               (MirStatementKinds \cup MirTerminatorKinds) \ {"Assign", "Call"})

\* The instructions of the longer bodies: pointers that are Imm or Mut and
\* Single.
WalkAlphabet ==
    AlphabetOf({PlainAddr},
               RawPtrLTys({LabelOf("Imm", "Single"), LabelOf("Mut", "Single")}, {"T"}),
               RawPtrLTys({LabelOf("Imm", "Single"), LabelOf("Mut", "Single")}, {"T"})
                   \cup RawPtrLTys({LabelOf("Mut", "Single")}, {"U"}),
               {"Cast", "BinaryOp", "NullaryOp"},
               {"StorageLive", "SetDiscriminant", "Return", "InlineAsm"})

\* The loops reach an assignment: a pointer is assigned to a pointer, and
\* another value to another value.
FetchAssign(a) ==
    \E pl \in a.places, rv \in a.rvalues, skip \in BOOLEAN :
    \E rv_lty \in IF pl.lty.label.none THEN {NonPtrLTy} ELSE a.rv_ltys :
        /\ skip => rv.kind = "Cast"
        /\ cur' = Assign(pl, rv, rv_lty, skip)

\* The loops reach a call: of offset, of as_ptr, or of another function.
FetchCall(a) ==
    \/ \E op \in {Constant, Copy(PlainPlace)} \cup {Copy(pl) : pl \in a.ptr_places},
          dest \in a.ptr_places :
          cur' = Call("PtrOffset", <<op, Constant>>, dest, 2)
    \/ \E pl \in a.ptr_places, dest \in a.ptr_places :
          cur' = Call("SliceAsPtr", <<Copy(pl)>>, dest, 1)
    \/ \E args \in {<<>>, <<Constant>>, <<Constant, Constant>>}, n \in {0, 1} :
          cur' = Call("Other", args, PlainPlace, n)

\* The loops reach the next instruction of the body.
Fetch(a) ==
    /\ status = "loop"
    /\ \/ FetchAssign(a)
       \/ FetchCall(a)
       \/ \E k \in a.others :
             cur' = MirInstr(k, PlainPlace, NoRv, NonPtrLTy, FALSE, "-", <<>>, 0)
    /\ status' = "visit"
    /\ UNCHANGED <<pos, nvisited, self_loc, self_sub_loc, rewrites, diags, casts, failure>>

FetchInstr ==
    /\ nvisited = 0
    /\ Fetch(AllAlphabet)
    /\ UNCHANGED <<prettyVars, unlowerVars, panicVars>>

FetchNext ==
    /\ nvisited < MaxInstrs
    /\ Fetch(WalkAlphabet)
    /\ UNCHANGED <<prettyVars, unlowerVars, panicVars>>

\* gen_mir_rewrites over a body of up to MaxInstrs instructions.
Spec ==
    InitAnnot /\ [][FetchNext \/ VisitStatement \/ VisitTerminator \/ Advance \/ Return]_vars

\* gen_mir_rewrites over a body of one instruction.
SpecInstr ==
    InitAnnot /\ [][FetchInstr \/ VisitStatement \/ VisitTerminator \/ Advance \/ Return]_vars

(***************************************************************************)
(* emit_cast_desc_desc called directly, at any sub-location path and with  *)
(* any two descriptors.                                                    *)
(***************************************************************************)
\* Descriptors over two pointee types, each with either of two lifetimes.
TypeDescs ==
    {TypeDesc(own, qty, pt) : own \in Ownerships, qty \in Quantities, 
     pt \in {Ty("Other", b, r) : b \in {"T", "U"}, r \in {"'a", "'b"}}}

\* A rewrite emitted before the call.
PriorRewrite == MirRewrite(CellSet, <<AssignRvalue>>)

InitCast ==
    /\ IdlePretty
    /\ IdlePanic
    /\ IdleUnlower
    /\ cur = NoInstr
    /\ pos = Location(0, 0)
    /\ nvisited = 0
    /\ self_loc = Location(0, 0)
    /\ self_sub_loc \in {<<>>, <<CallArg(0)>>, <<AssignRvalue, RvalueOperand(0)>>}
    /\ rewrites \in {EmptyRewrites, Location(0, 0) :> <<PriorRewrite>>}
    /\ diags = <<>>
    /\ casts = <<>>
    /\ status = "visit"
    /\ failure = ""

\* self.emit_cast_desc_desc(from, to)
EmitCast ==
    /\ status = "visit"
    /\ \E from \in TypeDescs, to \in TypeDescs :
          VisitorAfter(emit_cast_desc_desc(
              RewriteVisitor(self_loc, self_sub_loc, rewrites, diags, casts, status, failure),
              from, to))
    /\ UNCHANGED <<cur, pos, nvisited>>
    /\ UNCHANGED <<prettyVars, unlowerVars, panicVars>>

SpecCast == InitCast /\ [][EmitCast]_vars

(***************************************************************************)
(* gen_mir_rewrites and unlower over the same body of one instruction.     *)
(***************************************************************************)
\* The instructions of the joined bodies: pointers that are Imm or Mut,
\* Single or Slice.
JoinAlphabet ==
    AlphabetOf({PlainAddr},
               RawPtrLTys({LabelOf("Imm", "Single"), LabelOf("Mut", "Single"),
                           LabelOf("Mut", "Slice")}, {"T"}),
               RawPtrLTys({LabelOf("Imm", "Single"), LabelOf("Mut", "Single")}, {"T"}),
               {},
               {"StorageDead"})

\* The body: one instruction, carrying the span of the root expression;
\* unlower reads its kind, its span, whether its destination is a local, and
\* the number of its arguments; it visits nothing when the parent of the
\* body has the attribute automatically_derived.
FetchBody ==
    /\ nvisited = 0
    /\ mir = <<>>
    /\ Fetch(JoinAlphabet)
    /\ mir' = <<Instr(cur'.kind, 1, ~cur'.pl.indirect, Len(cur'.args))>>
    /\ \E automatically_derived \in BOOLEAN :
          pending' = IF automatically_derived THEN <<>> ELSE <<Unvisited(1, 1)>>
    /\ created' = 1
    /\ UNCHANGED <<visited, mir_map, conflicts, warnings, calls, last_expr>>
    /\ UNCHANGED <<prettyVars, panicVars>>

SpecJoin ==
    InitAnnot /\ [][FetchBody \/ VisitStatement \/ VisitTerminator \/ VisitExpr]_vars

SpecPretty == InitIdle /\ [][Construct \/ ToStringStep]_vars

(***************************************************************************)
(* Rewrite values of the type builders, constructed and printed.           *)
(***************************************************************************)
\* The type variants of enum Rewrite, children not yet constructed; TyCtor
\* with no, one, two or three arguments.
TypeVariants ==
    {PrintTy("T"), PrintTy("U"),
     TyPtr(Hole, "Not"), TyPtr(Hole, "Mut"), TyRef(Hole, "Not"), TyRef(Hole, "Mut"),
     TySlice(Hole),
     TyCtor("Foo", <<>>), TyCtor("Foo", <<Hole>>), TyCtor("Foo", <<Hole, Hole>>),
     TyCtor("Foo", <<Hole, Hole, Hole>>)}

\* Construction of one node of a type Rewrite.
ConstructTy ==
    /\ HasHole(rw)
    /\ \E c \in TypeVariants :
          /\ Size(FillFirst(rw, c)) <= MaxSize
          /\ rw' = FillFirst(rw, c)
    /\ UNCHANGED <<out, printed>>
    /\ UNCHANGED <<unlowerVars, annotVars, panicVars>>

SpecPrettyTy == InitIdle /\ [][ConstructTy \/ ToStringStep]_vars

(***************************************************************************)
(* A thread that calls set_current_span and catch_unwind, lets the guards  *)
(* go out of scope, and panics: up to MaxFrames guards and catch frames    *)
(* are live at a time.                                                     *)
(***************************************************************************)
MaxFrames == 3

\* A live frame: a guard with the span that was set, or the frame of
\* catch_unwind or of std::panic::catch_unwind.
Frame(kind, old, span) == [kind |-> kind, old |-> old, span |-> span]

\* The payloads of panics.
Payloads ==
    {[type |-> "&str", text |-> "boom"], [type |-> "String", text |-> "bang"],
     [type |-> "other", text |-> ""]}

\* let _g = set_current_span(span);
SetCurrentSpan ==
    /\ in_flight = <<>>
    /\ Len(frames) < MaxFrames
    /\ \E span \in {DUMMY_SP} \cup Spans :
          LET r == set_current_span(current_span, span)
          IN /\ current_span' = r.cell
             /\ frames' = Append(frames, Frame("guard", r.guard.old, span))
    /\ ret' = Returned("set_current_span", TRUE, "-", <<>>)
    /\ warned' = {}
    /\ UNCHANGED <<current_panic_detail, in_flight, recent>>
    /\ UNCHANGED <<prettyVars, unlowerVars, annotVars>>

\* The innermost guard goes out of scope, at the end of its block or at an
\* early return: Drop for CurrentSpanGuard.
DropGuard ==
    /\ in_flight = <<>>
    /\ frames # <<>>
    /\ frames[Len(frames)].kind = "guard"
    /\ current_span' = frames[Len(frames)].old
    /\ frames' = SubSeq(frames, 1, Len(frames) - 1)
    /\ ret' = Returned("drop", TRUE, "-", <<>>)
    /\ warned' = {}
    /\ UNCHANGED <<current_panic_detail, in_flight, recent>>
    /\ UNCHANGED <<prettyVars, unlowerVars, annotVars>>

\* catch_unwind(f), or std::panic::catch_unwind(f), is called: f starts.
CallCatchUnwind ==
    /\ in_flight = <<>>
    /\ Len(frames) < MaxFrames
    /\ \E kind \in {"catch_unwind", "std::panic::catch_unwind"} :
          frames' = Append(frames, Frame(kind, DUMMY_SP, DUMMY_SP))
    /\ ret' = Returned("call", TRUE, "-", <<>>)
    /\ warned' = {}
    /\ UNCHANGED <<current_panic_detail, current_span, in_flight, recent>>
    /\ UNCHANGED <<prettyVars, unlowerVars, annotVars>>

\* f returns r without a panic: Ok(r).
ReturnOk ==
    /\ in_flight = <<>>
    /\ frames # <<>>
    /\ frames[Len(frames)].kind # "guard"
    /\ frames' = SubSeq(frames, 1, Len(frames) - 1)
    /\ ret' = Returned(frames[Len(frames)].kind, TRUE, "r", <<>>)
    /\ warned' = {}
    /\ UNCHANGED <<current_panic_detail, current_span, in_flight, recent>>
    /\ UNCHANGED <<prettyVars, unlowerVars, annotVars>>

\* A panic starts: panic! runs the hook, and resume_unwind, or a panic
\* before the hook is set, does not.
Panic ==
    /\ in_flight = <<>>
    /\ \E payload \in Payloads, relevant_loc \in {<<>>, <<"relevant">>},
          hooked \in BOOLEAN :
          LET info == [payload |-> payload, location |-> <<"location">>,
                       relevant_loc |-> relevant_loc, backtrace |-> "backtrace"]
              h == panic_hook(current_panic_detail, current_span, info)
          IN /\ in_flight' = <<payload>>
             /\ IF hooked
                THEN /\ current_panic_detail' = h.cell
                     /\ warned' = h.warned
                     /\ recent' = <<[info |-> info, span |-> current_span]>>
                     /\ ret' = Returned("panic_hook", TRUE, "-", <<>>)
                ELSE /\ warned' = {}
                     /\ ret' = Returned("resume_unwind", TRUE, "-", <<>>)
                     /\ UNCHANGED <<current_panic_detail, recent>>
    /\ UNCHANGED <<current_span, frames>>
    /\ UNCHANGED <<prettyVars, unlowerVars, annotVars>>

\* The panic unwinds the innermost frame: a guard is dropped, and a catch
\* frame ends the unwinding and returns Err.
Unwind ==
    /\ in_flight # <<>>
    /\ frames # <<>>
    /\ frames' = SubSeq(frames, 1, Len(frames) - 1)
    /\ LET top == frames[Len(frames)]
           c == catch_unwind(current_panic_detail, in_flight[1])
       IN CASE top.kind = "guard" ->
                  /\ current_span' = top.old
                  /\ ret' = Returned("drop", TRUE, "-", <<>>)
                  /\ warned' = {}
                  /\ UNCHANGED <<current_panic_detail, in_flight, recent>>
            [] top.kind = "catch_unwind" ->
                  /\ current_panic_detail' = c.cell
                  /\ ret' = Returned("catch_unwind", FALSE, "-", <<c.ret>>)
                  /\ warned' = c.warned
                  /\ in_flight' = <<>>
                  /\ recent' = <<>>
                  /\ UNCHANGED current_span
            [] OTHER ->
                  /\ ret' = Returned(top.kind, FALSE, "-", <<>>)
                  /\ warned' = {}
                  /\ in_flight' = <<>>
                  /\ UNCHANGED <<current_panic_detail, current_span, recent>>
    /\ UNCHANGED <<prettyVars, unlowerVars, annotVars>>

\* take_current()
TakeCurrent ==
    /\ in_flight = <<>>
    /\ LET taken == take_current(current_panic_detail)
       IN /\ current_panic_detail' = taken.cell
          /\ ret' = Returned("take_current", TRUE, "-", taken.ret)
    /\ warned' = {}
    /\ recent' = <<>>
    /\ UNCHANGED <<current_span, frames, in_flight>>
    /\ UNCHANGED <<prettyVars, unlowerVars, annotVars>>

SpecPanic ==
    InitIdle /\ [][SetCurrentSpan \/ DropGuard \/ CallCatchUnwind \/ ReturnOk
                       \/ Panic \/ Unwind \/ TakeCurrent]_vars

(***************************************************************************)
(* Claims about the pretty-printer.                                        *)
(***************************************************************************)
\* The precedence classes as the specification states them.
PrecClass(k) ==
    CASE k \in {"Index", "SliceTail"} -> 3
      [] k \in {"Ref", "Deref"} -> 2
      [] k = "CastUsize" -> 1

PrecBuilders == {"Index", "SliceTail", "Ref", "Deref", "CastUsize"}

\* A child printed in a position that demands precedence d, by the stated
\* rule: in parentheses iff it is a builder of a class strictly lower than d.
Wrapped(c, d) ==
    IF c.k \in PrecBuilders /\ PrecClass(c.k) < d
    THEN "(" \o Display(c) \o ")"
    ELSE Display(c)

\* The text of a precedence builder at top level, its children placed by the
\* stated rule (the index position of SliceTail is not part of that rule).
RuleText(t) ==
    CASE t.k = "Ref" ->
            (IF t.m = "Not" THEN "&" ELSE "&mut ") \o Wrapped(t.args[1], 2)
      [] t.k = "Deref" -> "*" \o Wrapped(t.args[1], 2)
      [] t.k = "CastUsize" -> Wrapped(t.args[1], 1) \o " as usize"
      [] t.k = "Index" ->
            Wrapped(t.args[1], 3) \o "[" \o Wrapped(t.args[2], 0) \o "]"
      [] t.k = "SliceTail" ->
            Wrapped(t.args[1], 3) \o "[" \o pretty(t.args[2], 999) \o " ..]"

Id == Identity
RefN(r) == Ref(r, "Not")

\* The expected strings of test::rewrite_pretty_precedence.
TestStrings ==
    /\ rw = RefN(Index(Id, Id)) => out = "&$e[$e]"
    /\ rw = Index(RefN(Id), RefN(Id)) => out = "(&$e)[&$e]"
    /\ rw = CastUsize(RefN(Id)) => out = "&$e as usize"
    /\ rw = RefN(CastUsize(Id)) => out = "&($e as usize)"
    /\ rw = CastUsize(Index(Id, Id)) => out = "$e[$e] as usize"
    /\ rw = Index(CastUsize(Id), CastUsize(Id)) => out = "($e as usize)[$e as usize]"
    /\ rw = Index(Index(Id, Id), Id) => out = "$e[$e][$e]"

\* C9: the printed text encloses a child builder in parentheses if and only
\* if the child's precedence class (Index/SliceTail 3, Ref/Deref 2,
\* CastUsize 1) is strictly lower than the precedence its parent position
\* demands (3 in the array position, 2 under Ref/Deref, 1 under CastUsize,
\* 0 at top level and inside the brackets of Index), and the pairwise
\* nestings of the test print as the expected strings.
C9_PrecedenceRule ==
    printed =>
        /\ rw.k \in PrecBuilders => out = RuleText(rw)
        /\ TestStrings

C9_Witness ==
    /\ printed
    /\ rw = Index(CastUsize(Id), CastUsize(Id))
    /\ out = "($e as usize)[$e as usize]"

\* C10 as stated: in the text of SliceTail(arr, idx) the index sub-tree is
\* always enclosed in parentheses, leaf or operator, and followed by ` ..]`.
C10_IdxAlwaysParenthesized ==
    (printed /\ rw.k = "SliceTail") =>
        out = pretty(rw.args[1], 3) \o "[" \o "(" \o Display(rw.args[2]) \o ")" \o " ..]"

\* C10 amended: the index sub-tree is enclosed in parentheses exactly when it
\* is one of the builders Ref, Deref, Index, SliceTail, CastUsize; a leaf
\* (Identity, Sub, LitZero) or an AddrOf is printed bare; in both cases the
\* index is followed by ` ..]`.
C10_IdxParenthesizedIfBuilder ==
    (printed /\ rw.k = "SliceTail") =>
        out = pretty(rw.args[1], 3) \o "["
                \o (IF rw.args[2].k \in PrecBuilders
                    THEN "(" \o Display(rw.args[2]) \o ")"
                    ELSE Display(rw.args[2]))
                \o " ..]"

C10_Witness ==
    /\ printed
    /\ rw = SliceTail(Id, CastUsize(Id))
    /\ out = "$e[($e as usize) ..]"

\* The macro form of AddrOf: the argument as printed at top level, in one
\* pair of parentheses.
AddrOfText(t) ==
    (IF t.m = "Not" THEN "core::ptr::addr_of!" ELSE "core::ptr::addr_of_mut!")
        \o "(" \o Display(t.args[1]) \o ")"

\* Child j of a builder, an AddrOf child as its bare macro form.
Placed(t, j) ==
    IF t.args[j].k = "AddrOf" THEN AddrOfText(t.args[j])
    ELSE pretty(t.args[j], ChildPrec(t.k, j))

\* The text of a builder at top level around its children.
FrameText(t) ==
    CASE t.k = "Ref" -> (IF t.m = "Not" THEN "&" ELSE "&mut ") \o Placed(t, 1)
      [] t.k = "Deref" -> "*" \o Placed(t, 1)
      [] t.k = "CastUsize" -> Placed(t, 1) \o " as usize"
      [] t.k = "Index" -> Placed(t, 1) \o "[" \o Placed(t, 2) \o "]"
      [] t.k = "SliceTail" -> Placed(t, 1) \o "[" \o Placed(t, 2) \o " ..]"

\* C11: AddrOf(inner, m) prints as core::ptr::addr_of!(...) or
\* core::ptr::addr_of_mut!(...), its argument as printed at precedence 0 in
\* exactly one pair of parentheses, and the form itself is never wrapped:
\* not in either position of Index and SliceTail, nor under Ref, Deref or
\* CastUsize.
C11_AddrOfMacroForm ==
    printed =>
        /\ rw.k = "AddrOf" => out = AddrOfText(rw)
        /\ (rw.k \in PrecBuilders /\ \E j \in 1..Len(rw.args) : rw.args[j].k = "AddrOf")
              => out = FrameText(rw)

\* A mutable AddrOf of a cast, in the array position of Index.
C11_Witness ==
    /\ printed
    /\ rw = Index(AddrOf(CastUsize(Id), "Mut"), Id)
    /\ out = "core::ptr::addr_of_mut!($e as usize)[$e]"

\* The texts ss in order, separated by `, `.
RECURSIVE CommaSeparated(_)
CommaSeparated(ss) ==
    IF ss = <<>> THEN ""
    ELSE IF Len(ss) = 1 THEN Head(ss)
    ELSE Head(ss) \o ", " \o CommaSeparated(Tail(ss))

\* C12: TyCtor(name, args) prints as the generic type application
\* `Foo<T1, T2>`: the name, `<`, the printed arguments in order separated by
\* `, `, and `>`.
C12_TyCtorSeparated ==
    (printed /\ rw.k = "TyCtor") =>
        out = rw.s \o "<"
                \o CommaSeparated([j \in 1..Len(rw.args) |-> Display(rw.args[j])])
                \o ">"

(***************************************************************************)
(* Claims about the panic recorder and the current span.                   *)
(***************************************************************************)
\* The message of a payload, as a reader of the panic sees it.
MessageOf(e) ==
    CASE e.type = "&str" -> e.text
      [] e.type = "String" -> e.text
      [] OTHER -> "unknown error: TypeId"

\* The detail of the latest panic that the hook saw and that was not taken
\* since: its message, location and backtrace, and the span at that time.
LatestDetail ==
    IF recent = <<>> THEN <<>>
    ELSE <<[msg |-> MessageOf(recent[1].info.payload),
            loc |-> recent[1].info.location,
            relevant_loc |-> recent[1].info.relevant_loc,
            backtrace |-> <<recent[1].info.backtrace>>,
            span |-> recent[1].span]>>

\* C14: the recorder holds at most one detail, that of the most recent
\* panic; panic_hook replaces a detail that is stored, and then warns that
\* the old one is discarded; take_current returns what is stored and clears
\* the storage, so the second of two calls in a row returns None.
C14_Recorder ==
    /\ [](current_panic_detail = LatestDetail)
    /\ [][
          /\ ret'.op = "panic_hook" =>
                /\ Len(current_panic_detail') = 1
                /\ current_panic_detail'[1].span = current_span
                /\ warned' = IF current_panic_detail # <<>>
                             THEN {"discarding old panic detail"} ELSE {}
          /\ ret'.op = "take_current" =>
                /\ ret'.detail = current_panic_detail
                /\ current_panic_detail' = <<>>
                /\ (ret.op = "take_current" => ret'.detail = <<>>)
       ]_vars

\* A second panic while the detail of the first is still stored: the first
\* was caught by std::panic::catch_unwind, which takes nothing.
C14_Witness ==
    /\ ret.op = "panic_hook"
    /\ warned = {"discarding old panic detail"}
    /\ current_panic_detail = LatestDetail
    /\ current_panic_detail[1].msg = "bang"

\* C16: catch_unwind(f) returns Ok(r) when f returns r; when f panics it
\* returns Err of the detail that panic_hook recorded for the latest panic,
\* with the span that was current at that panic, and leaves the storage
\* empty; when nothing is stored it returns a detail of the message alone,
\* with no location, no backtrace and the dummy span.
C16_CatchUnwind ==
    [][ret'.op = "catch_unwind" =>
          IF ret'.ok
          THEN /\ in_flight = <<>>
               /\ ret'.r = "r"
               /\ UNCHANGED current_panic_detail
          ELSE /\ in_flight # <<>>
               /\ current_panic_detail' = <<>>
               /\ ret'.detail =
                     IF recent # <<>> THEN LatestDetail
                     ELSE <<[msg |-> MessageOf(in_flight[1]), loc |-> <<>>,
                             relevant_loc |-> <<>>, backtrace |-> <<>>,
                             span |-> DUMMY_SP]>>
               /\ warned' = IF recent # <<>> THEN {}
                            ELSE {"missing panic detail; caught message"}]_vars

\* The live guards, outermost first.
LiveGuards == SelectSeq(frames, LAMBDA f : f.kind = "guard")

\* C15: dropping a guard resets the current span to the value it had just
\* before the call that made the guard: each live guard holds the span that
\* was current before it (the one the next guard out set, or the span before
\* the outermost call), and the current span is the one the innermost live
\* guard set; once the guards are released, in reverse order of creation and
\* on any exit path, the current span is the one before the outermost call.
C15_SpanRestored ==
    /\ current_span = IF LiveGuards = <<>> THEN DUMMY_SP
                      ELSE LiveGuards[Len(LiveGuards)].span
    /\ \A i \in 1..Len(LiveGuards) :
          LiveGuards[i].old = IF i = 1 THEN DUMMY_SP ELSE LiveGuards[i - 1].span

\* A panic under a guard was caught outside it: the detail has the span of
\* the guard, and the span is back to the one before the outermost call.
C15_Witness ==
    /\ ret.op = "catch_unwind" /\ ~ret.ok
    /\ ret.detail # <<>> /\ ret.detail[1].span = 2
    /\ frames = <<>>
    /\ current_span = DUMMY_SP

(***************************************************************************)
(* Claims about the annotator (rewrite/expr/mir_op.rs).                    *)
(***************************************************************************)
\* The rewrites recorded at a location.
OpsAt(l) == IF l \in DOMAIN rewrites THEN rewrites[l] ELSE <<>>

\* The descriptor a labelled type resolves to.
DescOf(lty) == perms_to_desc(lty.ty, lty.label.perms, lty.label.flags)

\* C1: while gen_mir_rewrites walks a body, the sub-location stack is empty
\* when visit_statement or visit_terminator is entered and when it returns,
\* for every instruction that does not abort the session.
C1_StackBalanced == status # "aborted" => self_sub_loc = <<>>

\* The second instruction of a body is an assignment whose visit went two
\* tags deep, emitted there, and returned.
C1_Witness ==
    /\ status = "visited"
    /\ nvisited = 2
    /\ cur.kind = "Assign"
    /\ \E j \in 1..Len(OpsAt(pos)) : Len(OpsAt(pos)[j].sub_loc) = 2
    /\ self_sub_loc = <<>>

\* The pointee types of a call of the cast helper agree up to lifetimes.
SamePointee(c) == erase_regions(c.from.pointee_ty) = erase_regions(c.to.pointee_ty)

\* The only difference is the narrowing of the ownership from Mut to Imm.
Narrowing(c) ==
    /\ c.from.own = "Mut"
    /\ c.to.own = "Imm"
    /\ c.from.qty = c.to.qty
    /\ SamePointee(c)

\* What one call of the cast helper has added at its location.
EmittedByCast == SelectSeq(OpsAt(self_loc), LAMBDA r : r # PriorRewrite)

\* C2: emit_cast_desc_desc(from, to) emits nothing when from = to, exactly
\* one MutToImm at the current sub-location path when the only difference is
\* the narrowing Mut -> Imm (same quantity, same pointee up to lifetimes),
\* and no rewrite for every other pair of descriptors.
C2_CastDescDesc ==
    status \in {"visited", "aborted"} =>
        /\ Len(casts) = 1
        /\ casts[1].sub_loc = self_sub_loc
        /\ EmittedByCast =
              IF Narrowing(casts[1])
              THEN <<MirRewrite(MutToImm, self_sub_loc)>>
              ELSE <<>>
        /\ casts[1].from = casts[1].to => diags = <<>> /\ status = "visited"
        /\ Len(OpsAt(self_loc)) > Len(EmittedByCast) => Head(OpsAt(self_loc)) = PriorRewrite

\* A narrowing between pointee types of different lifetimes, under an
\* argument of a call and after an earlier rewrite of the location.
C2_Witness ==
    /\ status = "visited"
    /\ Narrowing(casts[1])
    /\ casts[1].from.pointee_ty # casts[1].to.pointee_ty
    /\ rewrites = (self_loc :> <<PriorRewrite, MirRewrite(MutToImm, <<CallArg(0)>>)>>)

\* A cast that is neither the identity nor the known narrowing.
Unrepresentable(c) == c.from # c.to /\ ~Narrowing(c)

DiagOf(c) == [from |-> c.from, to |-> c.to]

\* The unrepresentable casts so far, in order; of equal pointee types only,
\* or of any.
SoftFailures(any_pointee) ==
    SelectSeq(casts, LAMBDA c : Unrepresentable(c) /\ (any_pointee \/ SamePointee(c)))

DiagsOf(cs) == [n \in 1..Len(cs) |-> DiagOf(cs[n])]

\* The instructions the annotator has no case for.
Unhandled == {"SetDiscriminant", "CopyNonOverlapping", "InlineAsm"}

\* Every narrowing so far has its MutToImm in the map, and no unrepresentable
\* cast has one.
CastsAndRewritesAgree ==
    \A n \in 1..Len(casts) :
        LET c == casts[n]
            present == \E j \in 1..Len(OpsAt(c.loc)) :
                          OpsAt(c.loc)[j] = MirRewrite(MutToImm, c.sub_loc)
        IN /\ Narrowing(c) => present
           /\ Unrepresentable(c) => ~present

\* C3 as stated: an unrepresentable cast, whatever the ownerships, the
\* quantities and the pointee types, leaves a diagnostic and no rewrite,
\* and never aborts the session.
C3_SoftFailureAnyPointee ==
    /\ diags = DiagsOf(SoftFailures(TRUE))
    /\ CastsAndRewritesAgree
    /\ status = "aborted" => cur.kind \in Unhandled

\* C3: an unrepresentable cast between descriptors whose pointee types agree
\* up to lifetimes leaves a diagnostic and no rewrite and does not abort;
\* the walk goes on and the map keeps the rewrites of the other instructions.
\* A cast between different pointee types aborts the session.
C3_SoftFailure ==
    /\ diags = DiagsOf(SoftFailures(FALSE))
    /\ CastsAndRewritesAgree
    /\ status = "aborted" =>
          \/ cur.kind \in Unhandled
          \/ casts # <<>> /\ ~SamePointee(casts[Len(casts)])
    /\ \A n \in 1..Len(casts) :
          ~SamePointee(casts[n]) => status = "aborted" /\ n = Len(casts)

\* The first instruction had an unrepresentable cast, the second one a
\* narrowing; gen_mir_rewrites has returned the map with that rewrite.
C3_Witness ==
    /\ status = "done"
    /\ Len(casts) = 2
    /\ Unrepresentable(casts[1])
    /\ diags = <<DiagOf(casts[1])>>
    /\ casts[2].loc # casts[1].loc
    /\ rewrites = (casts[2].loc :> <<MirRewrite(MutToImm, casts[2].sub_loc)>>)

\* C13: a SetDiscriminant or CopyNonOverlapping statement or an InlineAsm
\* terminator stops the session with a failure that names the construct, and
\* gen_mir_rewrites neither goes on nor returns a map; every other kind that
\* is neither an assignment nor a call is passed over: no rewrite, no cast,
\* no diagnostic, no abort.
C13_UnhandledKinds ==
    /\ (status \in {"visited", "aborted"} /\ cur.kind \in Unhandled) =>
          /\ status = "aborted"
          /\ failure = "not yet implemented: "
                         \o (IF cur.kind \in MirStatementKinds
                             THEN "statement " ELSE "terminator ")
                         \o cur.kind
    /\ status = "aborted" => ~ENABLED Advance /\ ~ENABLED Return /\ ~ENABLED FetchInstr
    /\ (status \in {"visited", "aborted"}
            /\ cur.kind \notin Unhandled \cup {"Assign", "Call"}) =>
          /\ status = "visited"
          /\ rewrites = EmptyRewrites
          /\ casts = <<>>
          /\ diags = <<>>
          /\ ENABLED Advance

\* An InlineAsm terminator has stopped the session.
C13_Witness ==
    /\ status = "aborted"
    /\ cur.kind = "InlineAsm"
    /\ failure = "not yet implemented: terminator InlineAsm"
    /\ rewrites = EmptyRewrites

IsPtrOffset == cur.kind = "Call" /\ cur.func = "PtrOffset"

\* The visit of a pointer-offset call whose result is Single has returned.
OffsetToSingle ==
    /\ status = "visited"
    /\ IsPtrOffset
    /\ DescOf(type_of(cur.pl)).qty = "Single"

\* The argument of the call was annotated under the quantity Slice.
ArgExpectedSlice ==
    /\ Len(casts) = IF cur.args[1].is_place /\ ~type_of(cur.args[1]).label.none
                    THEN 1 ELSE 0
    /\ \A n \in 1..Len(casts) :
          /\ casts[n].sub_loc = <<CallArg(0)>>
          /\ casts[n].from = DescOf(type_of(cur.args[1]))
          /\ casts[n].to.qty = "Slice"
          /\ casts[n].to.own = DescOf(type_of(cur.pl)).own

\* C4 as stated: the list of the location holds exactly two operations,
\* OffsetSlice and then SliceFirst.
C4_ExactlyTwoInList ==
    OffsetToSingle =>
        LET mutbl == DescOf(type_of(cur.pl)).own = "Mut"
        IN /\ ArgExpectedSlice
           /\ OpsAt(pos) = <<MirRewrite(OffsetSlice(mutbl), <<>>),
                             MirRewrite(SliceFirst(mutbl), <<>>)>>

\* C4: the argument is annotated under the quantity Slice, and the list of
\* the location ends with the two operations of the call itself, OffsetSlice
\* and then SliceFirst at the empty path; one MutToImm at [CallArg(0)]
\* precedes them exactly when the cast of the argument is the narrowing.
C4_OffsetSliceThenFirst ==
    OffsetToSingle =>
        LET mutbl == DescOf(type_of(cur.pl)).own = "Mut"
            own_ops == <<MirRewrite(OffsetSlice(mutbl), <<>>),
                         MirRewrite(SliceFirst(mutbl), <<>>)>>
        IN /\ ArgExpectedSlice
           /\ OpsAt(pos) =
                 IF casts # <<>> /\ Narrowing(casts[1])
                 THEN <<MirRewrite(MutToImm, <<CallArg(0)>>)>> \o own_ops
                 ELSE own_ops
           /\ DOMAIN rewrites = {pos}

\* The argument is a mutable slice and the result a shared single pointer:
\* three operations at the location.
C4_Witness ==
    /\ OffsetToSingle
    /\ Len(OpsAt(pos)) = 3
    /\ DescOf(type_of(cur.args[1])) = TypeDesc("Mut", "Slice", Ty("Other", "T", "erased"))

\* The operations of one kind that were recorded at the instruction.
OpsOfKind(k) == SelectSeq(OpsAt(pos), LAMBDA r : r.kind.kind = k)

\* C18: for an assignment of an address-of expression of declared
\* mutability m, RawToRef{mutable = false} is emitted when the expected
\* descriptor is Cell, RawToRef{mutable = m} when it is Imm or Mut, and no
\* RawToRef for another ownership; there is at most one, at operand 0 of the
\* right-hand side.
C18_RawToRef ==
    (status = "visited" /\ cur.kind = "Assign" /\ cur.rv.kind = "AddressOf") =>
        LET own == DescOf(cur.rv_lty).own
            at == <<AssignRvalue, RvalueOperand(0)>>
        IN OpsOfKind("RawToRef") =
              CASE own = "Cell" -> <<MirRewrite(RawToRef(FALSE), at)>>
                [] own \in {"Imm", "Mut"} -> <<MirRewrite(RawToRef(cur.rv.mutbl), at)>>
                [] OTHER -> <<>>

\* &raw mut out of a place, assigned to a pointer that is a Cell.
C18_Witness ==
    /\ status = "visited"
    /\ cur.kind = "Assign" /\ cur.rv.kind = "AddressOf" /\ cur.rv.mutbl
    /\ DescOf(cur.rv_lty).own = "Cell"
    /\ OpsOfKind("RawToRef") =
          <<MirRewrite(RawToRef(FALSE), <<AssignRvalue, RvalueOperand(0)>>)>>

\* The assignment at hand is one the visitor goes into: it is not a cast
\* to or from void* that is left to the rewrite of a libc call.
AssignVisited ==
    status = "visited" /\ cur.kind = "Assign" /\ ~(cur.rv.kind = "Cast" /\ cur.skip)

\* C19: for an assignment whose destination is a dereference of a pointer,
\* CellSet is emitted exactly when the descriptor of the pointer that is
\* dereferenced is of ownership Cell; it is emitted once, at [AssignRvalue],
\* and is the first operation in the list of the instruction.
C19_CellSet ==
    (status = "visited" /\ cur.kind = "Assign" /\ cur.pl.indirect) =>
        LET cell == DescOf(cur.pl.ptr).own = "Cell"
        IN /\ OpsOfKind("CellSet") =
                 IF cell THEN <<MirRewrite(CellSet, <<AssignRvalue>>)>> ELSE <<>>
           /\ cell => OpsAt(pos)[1] = MirRewrite(CellSet, <<AssignRvalue>>)

\* The right-hand side is a plain read through a dereference of a pointer
\* local that is a Cell.
PlainCellRead ==
    /\ cur.rv.kind = "Use"
    /\ cur.rv.ops[1].is_place
    /\ cur.rv.ops[1].place.indirect
    /\ is_any_ptr(cur.rv.ops[1].place.local.lty.ty)
    /\ DescOf(cur.rv.ops[1].place.local.lty).own = "Cell"

LocalIsCell ==
    local_perms_to_desc(cur.pl.local.lty.ty, cur.pl.local.addr.perms,
                        cur.pl.local.addr.flags).own = "Cell"

\* C21: CellNew is emitted for an assignment exactly when the destination
\* is a plain local, not a projected place, the right-hand side is a plain
\* use of an operand and the descriptor of the local itself says Cell; it is
\* emitted at operand 0 of the right-hand side, and when CellGet is emitted
\* for the same assignment the two are at the same path, CellNew first.
C21_CellNew ==
    AssignVisited =>
        LET at == <<AssignRvalue, RvalueOperand(0)>>
            both == SelectSeq(OpsAt(pos),
                              LAMBDA r : r.kind.kind \in {"CellNew", "CellGet"})
        IN /\ OpsOfKind("CellNew") =
                 IF ~cur.pl.indirect /\ cur.rv.kind = "Use" /\ LocalIsCell
                 THEN <<MirRewrite(CellNew, at)>>
                 ELSE <<>>
           /\ Len(both) = 2 =>
                 both = <<MirRewrite(CellNew, at), MirRewrite(CellGet, at)>>

\* The right-hand side and the destination differ only by the ownership,
\* Mut on the right and Imm on the left.
OnlyMutToImm ==
    LET from == DescOf(cur.rv_lty)
        to == DescOf(type_of(cur.pl))
    IN /\ from.own = "Mut" /\ to.own = "Imm"
       /\ from.qty = to.qty
       /\ from.pointee_ty = to.pointee_ty

\* The list of an assignment is in the order of emission: the operations at
\* paths that begin with AssignRvalue, then at most one MutToImm at the empty
\* path; all of it is stored under the location of the instruction.
InEmissionOrder ==
    /\ DOMAIN rewrites \subseteq {pos}
    /\ self_loc = pos
    /\ \A i \in 1..Len(OpsAt(pos)) :
          IF OpsAt(pos)[i].sub_loc = <<>>
          THEN i = Len(OpsAt(pos)) /\ OpsAt(pos)[i].kind = MutToImm
          ELSE OpsAt(pos)[i].sub_loc[1] = AssignRvalue
    /\ OpsOfKind("CellSet") \o OpsOfKind("CellNew") \o OpsOfKind("CellGet")
          = SelectSeq(OpsAt(pos),
                      LAMBDA r : r.kind.kind \in {"CellSet", "CellNew", "CellGet"})

\* C22, as the claim has it: the list of an assignment is in emission order,
\* the operations of the operands first and the operation of the final
\* comparison last, at the empty path; that one is MutToImm exactly when the
\* descriptors of the right-hand side and of the destination differ only by
\* the ownership Mut -> Imm.
C22_FinalCastWhenNarrowing ==
    AssignVisited =>
        /\ InEmissionOrder
        /\ (\E i \in 1..Len(OpsAt(pos)) : OpsAt(pos)[i].sub_loc = <<>>) <=> OnlyMutToImm

\* C22, amended: the final operation is MutToImm exactly when the two
\* descriptors differ only by the ownership Mut -> Imm and the right-hand
\* side or the destination is a raw pointer.
C22_FinalCast ==
    AssignVisited =>
        /\ InEmissionOrder
        /\ (\E i \in 1..Len(OpsAt(pos)) : OpsAt(pos)[i].sub_loc = <<>>)
              <=> /\ OnlyMutToImm
                  /\ "RawPtr" \in {cur.rv_lty.ty.kind, type_of(cur.pl).ty.kind}

\* A Mut raw pointer is stored as Imm: an operation of operand 0 comes
\* first, and the MutToImm of the final comparison is last.
C22_Witness ==
    /\ AssignVisited
    /\ OnlyMutToImm
    /\ cur.rv_lty.ty.kind = "RawPtr"
    /\ Len(OpsAt(pos)) >= 2
    /\ OpsAt(pos)[1].sub_loc = <<AssignRvalue, RvalueOperand(0)>>
    /\ OpsAt(pos)[Len(OpsAt(pos))] = MirRewrite(MutToImm, <<>>)

\* The quantity expected of the argument of an offset call.
Widened(qty) == IF qty = "Single" THEN "Slice" ELSE qty

\* C17: for a pointer-offset call the descriptor expected of the argument
\* has the ownership and the pointee of the result and its quantity widened;
\* OffsetSlice is emitted, and SliceFirst after it only when the result is
\* Single; the operations of the argument, under CallArg(0), come first; the
\* flag of OffsetSlice and SliceFirst is set exactly when the result is Mut.
\* The result is never of quantity Array.
C17_PtrOffset ==
    (status \in {"visited", "aborted"} /\ IsPtrOffset) =>
        LET result_desc == DescOf(type_of(cur.pl))
            arg == cur.args[1]
            mutbl == result_desc.own = "Mut"
            own_ops == IF result_desc.qty = "Single"
                       THEN <<MirRewrite(OffsetSlice(mutbl), <<>>),
                              MirRewrite(SliceFirst(mutbl), <<>>)>>
                       ELSE <<MirRewrite(OffsetSlice(mutbl), <<>>)>>
            arg_ops == IF casts # <<>> /\ Narrowing(casts[1])
                       THEN <<MirRewrite(MutToImm, <<CallArg(0)>>)>>
                       ELSE <<>>
        IN /\ result_desc.qty \in {"Single", "Slice", "OffsetPtr"}
           /\ Len(casts) = IF arg.is_place /\ ~type_of(arg).label.none THEN 1 ELSE 0
           /\ \A n \in 1..Len(casts) :
                 /\ casts[n].sub_loc = <<CallArg(0)>>
                 /\ casts[n].from = DescOf(type_of(arg))
                 /\ casts[n].to = TypeDesc(result_desc.own, Widened(result_desc.qty),
                                           result_desc.pointee_ty)
           /\ status = "visited" => rewrites = (pos :> arg_ops \o own_ops)
           /\ status = "aborted" =>
                 /\ casts # <<>> /\ ~SamePointee(casts[1])
                 /\ rewrites = EmptyRewrites

\* An offset from a mutable slice to a mutable slice, and back in range.
C17_Witness ==
    /\ status = "visited"
    /\ IsPtrOffset
    /\ DescOf(type_of(cur.pl)).own = "Mut"
    /\ DescOf(type_of(cur.pl)).qty = "OffsetPtr"
    /\ Len(casts) = 1
    /\ rewrites = (pos :> <<MirRewrite(OffsetSlice(TRUE), <<>>)>>)

IsSliceAsPtr == cur.kind = "Call" /\ cur.func = "SliceAsPtr"

\* C5: for an as_ptr call, exactly one RemoveAsPtr and no cast when the
\* descriptors of operand and result have the same ownership and quantity;
\* no rewrite at all at the location of the call when they differ.
C5_RemoveAsPtr ==
    (IsSliceAsPtr /\ status \notin {"visit"}) =>
        LET op_desc == DescOf(type_of(cur.args[1]))
            result_desc == DescOf(type_of(cur.pl))
        IN /\ status = "visited"
           /\ casts = <<>>
           /\ diags = <<>>
           /\ OpsAt(pos) =
                 IF op_desc.own = result_desc.own /\ op_desc.qty = result_desc.qty
                 THEN <<MirRewrite(RemoveAsPtr, <<>>)>>
                 ELSE <<>>
           /\ DOMAIN rewrites \subseteq {pos}

\* as_ptr from a Cell slice to a Cell slice of another pointee type.
C5_Witness ==
    /\ IsSliceAsPtr
    /\ status = "visited"
    /\ rewrites = (pos :> <<MirRewrite(RemoveAsPtr, <<>>)>>)
    /\ DescOf(type_of(cur.pl)).own = "Cell"
    /\ DescOf(type_of(cur.pl)).qty = "Slice"

(***************************************************************************)
(* Claims about the two maps together.                                     *)
(***************************************************************************)
IsPrefix(p, q) == Len(p) <= Len(q) /\ SubSeq(q, 1, Len(p)) = p

\* The paths unlower has recorded at a location for a part of the
\* instruction other than its destination.
PartKeys(l) == {k[2] : k \in {k \in DOMAIN mir_map : k[1] = l}} \ {<<>>, <<Dest>>}

\* C8: the sub-location path joins the two maps: where unlower has recorded
\* the right-hand side or the arguments of an instruction, every rewrite the
\* annotator emits for the right-hand side or for an argument lies at or
\* inside one of the recorded paths.
C8_JoinKey ==
    \A l \in DOMAIN rewrites : \A j \in 1..Len(rewrites[l]) :
        LET path == rewrites[l][j].sub_loc
        IN (path # <<>> /\ Head(path)[1] \in {"AssignRvalue", "CallArg"}
                /\ PartKeys(l) # {})
           => \E key \in PartKeys(l) : IsPrefix(key, path)

(***************************************************************************)
(* Claims about the unlowering map.                                        *)
(***************************************************************************)
CallKey(c) == <<c.loc, c.sub_loc>>
CallOrigin(c) == MirOrigin(c.ex.hir_id, c.ex.span, c.desc)

\* The index in calls of the first call for the key of call number n.
FirstCallFor(n) ==
    CHOOSE j \in 1..n :
        /\ CallKey(calls[j]) = CallKey(calls[n])
        /\ \A h \in 1..(j - 1) : CallKey(calls[h]) # CallKey(calls[n])

\* The later calls whose origin differs from the one stored for their key.
ConflictingCalls ==
    SelectSeq([n \in 1..Len(calls) |-> [n |-> n, c |-> calls[n]]],
              LAMBDA e : /\ FirstCallFor(e.n) # e.n
                         /\ CallOrigin(e.c) # CallOrigin(calls[FirstCallFor(e.n)]))

\* C6: after any sequence of record/record_desc calls the map holds, for
\* every key written, the origin of the first call for that key and nothing
\* else, and one conflict is logged for each later call for an occupied key
\* with a different origin (none for a later call with an equal origin).
C6_FirstWriterWins ==
    /\ DOMAIN mir_map = {CallKey(calls[n]) : n \in 1..Len(calls)}
    /\ \A n \in 1..Len(calls) :
          mir_map[CallKey(calls[n])] = CallOrigin(calls[FirstCallFor(n)])
    /\ Len(conflicts) = Len(ConflictingCalls)
    /\ \A j \in 1..Len(conflicts) :
          /\ conflicts[j].origin1 = CallOrigin(ConflictingCalls[j].c)
          /\ <<conflicts[j].loc, conflicts[j].sub_loc>> = CallKey(ConflictingCalls[j].c)

\* Three calls for one key: the first stored, the second equal to it, the
\* third different and logged.
C6_Witness ==
    /\ Len(calls) = 3
    /\ CallKey(calls[1]) = CallKey(calls[2])
    /\ CallKey(calls[1]) = CallKey(calls[3])
    /\ CallOrigin(calls[2]) = CallOrigin(calls[1])
    /\ CallOrigin(calls[3]) # CallOrigin(calls[1])
    /\ mir_map[CallKey(calls[1])] = CallOrigin(calls[1])
    /\ Len(conflicts) = 1

(***************************************************************************)
(* Claims about unlower over a body.                                       *)
(***************************************************************************)
\* No expression that has MIR instructions is duplicated: no two of the
\* expressions visited so far carry the same span, if an instruction of the
\* body carries that span too.
NoDuplicatedExprs ==
    \A i \in 1..Len(mir) : visited[mir[i].span] <= 1

\* Every key was written by exactly one call, whose origin the map holds.
WrittenOnce ==
    /\ \A m, n \in 1..Len(calls) : CallKey(calls[m]) = CallKey(calls[n]) => m = n
    /\ DOMAIN mir_map = {CallKey(calls[n]) : n \in 1..Len(calls)}
    /\ \A n \in 1..Len(calls) : mir_map[CallKey(calls[n])] = CallOrigin(calls[n])

\* C7: while no expression is duplicated, unlower has written every
\* (Location, SubLocPath) key of its map exactly once, the map holds the
\* origin of that one write, and no conflict is logged, whatever the kinds
\* and nesting of the expressions and whatever the body.
C7_InjectiveUnlowering ==
    NoDuplicatedExprs => (WrittenOnce /\ conflicts = <<>>)

\* A method call and, nested in it, its receiver, both with instructions:
\* five keys at two locations, every expression visited, no span shared.
C7_Witness ==
    /\ pending = <<>>
    /\ Len(mir) = 2
    /\ NoDuplicatedExprs
    /\ Cardinality(DOMAIN mir_map) >= 5
    /\ Cardinality({k[1] : k \in DOMAIN mir_map}) = 2
    /\ conflicts = <<>>

(***************************************************************************)
(* Claims about one visit of an expression.  A step of unlower visits      *)
(* last_expr' and makes the calls of record_desc that calls' has more than *)
(* calls.                                                                  *)
(***************************************************************************)
\* The indices of the instructions that carry exactly this span and are not
\* bookkeeping, in program order.
Matching(span) ==
    SelectSeq([i \in 1..Len(mir) |-> i],
              LAMBDA i : /\ mir[i].span = span
                         /\ mir[i].kind \notin {"FakeRead", "StorageLive",
                                                "StorageDead", "Nop"})

\* The step visits an expression of one of these kinds.
Visits(kinds) == last_expr' # last_expr /\ last_expr'.ex.kind \in kinds

\* The step records exactly cs, in this order: a key that was vacant now
\* holds the origin of its call, and nothing else of the map has changed.
Records(cs) ==
    \E made \in {cs} :
       /\ calls' = calls \o made
       /\ DOMAIN mir_map' =
             DOMAIN mir_map \cup {CallKey(made[n]) : n \in 1..Len(made)}
       /\ \A key \in DOMAIN mir_map : mir_map'[key] = mir_map[key]
       /\ \A n \in 1..Len(made) :
             CallKey(made[n]) \notin DOMAIN mir_map =>
                mir_map'[CallKey(made[n])] = CallOrigin(made[n])

\* C23: for an assignment expression entries are recorded if and only if,
\* the bookkeeping instructions left out, exactly one instruction carries
\* the span of the expression and it is an Assign statement; then three keys
\* of its location are recorded, all as Expr: the empty path with the whole
\* expression, [Dest] with the destination and [Rvalue] with the right-hand
\* side.
C23_AssignExpr ==
    [][Visits({"Assign"}) =>
          LET ex == last_expr'.ex
              kids == last_expr'.kids
              found == Matching(ex.span)
          IN IF Len(found) = 1 /\ mir[found[1]].kind = "Assign"
             THEN Records(<<RecordCall(LocOf(mir, found[1]), <<>>, ex, "Expr"),
                            RecordCall(LocOf(mir, found[1]), <<Dest>>, kids[1], "Expr"),
                            RecordCall(LocOf(mir, found[1]), <<Rvalue>>, kids[2],
                                       "Expr")>>)
             ELSE Records(<<>>)]_vars

\* x = y with a StorageDead of the same span before the Assign: the three
\* keys of the Assign are in the map.
C23_Witness ==
    /\ last_expr.ex.kind = "Assign"
    /\ Len(mir) = 2 /\ mir[1].kind = "StorageDead" /\ mir[2].kind = "Assign"
    /\ mir[1].span = last_expr.ex.span /\ mir[2].span = last_expr.ex.span
    /\ DOMAIN mir_map = {<<Location(0, 1), <<>>>>, <<Location(0, 1), <<Dest>>>>,
                         <<Location(0, 1), <<Rvalue>>>>}
    /\ mir_map[<<Location(0, 1), <<Dest>>>>] =
          MirOrigin(last_expr.kids[1].hir_id, last_expr.kids[1].span, "Expr")
    /\ mir_map[<<Location(0, 1), <<Rvalue>>>>] =
          MirOrigin(last_expr.kids[2].hir_id, last_expr.kids[2].span, "Expr")

\* The source arguments of a call: the children after the callee of a Call,
\* all the children of a MethodCall.
SourceArgs == IF last_expr'.ex.kind = "Call" THEN Tail(last_expr'.kids)
              ELSE last_expr'.kids

\* C24: for a call or method call entries are recorded if and only if the
\* last instruction matching its span is a Call whose destination is a plain
\* local; then the call is recorded as StoreIntoLocal at the empty path and
\* as Expr at [Rvalue], and source argument i as Expr at [Rvalue, CallArg(i)]
\* for every i below the smaller of the two argument counts; the earlier
\* matching instructions give one warning and no entry.
C24_CallExpr ==
    [][Visits({"Call", "MethodCall"}) =>
          LET ex == last_expr'.ex
              found == Matching(ex.span)
              last == found[Len(found)]
              loc == LocOf(mir, last)
              paired == IF Len(SourceArgs) < mir[last].nargs THEN Len(SourceArgs)
                        ELSE mir[last].nargs
          IN IF found # <<>> /\ mir[last].kind = "Call" /\ mir[last].is_var
             THEN /\ Records(<<RecordCall(loc, <<>>, ex, "StoreIntoLocal"),
                                RecordCall(loc, <<Rvalue>>, ex, "Expr")>>
                              \o [i \in 1..paired |->
                                     RecordCall(loc, <<Rvalue, CallArg(i - 1)>>,
                                                SourceArgs[i], "Expr")])
                  /\ warnings' = IF Len(found) > 1
                                 THEN Append(warnings, "NYI: extra locations in Call")
                                 ELSE warnings
             ELSE Records(<<>>)]_vars

\* x.f(y) lowered to an Assign and then a Call of two operands, both of its
\* span: the keys of the Call are in the map, the receiver at CallArg(0) and
\* y at CallArg(1), nothing at the Assign, and one warning.
C24_Witness ==
    /\ last_expr.ex.kind = "MethodCall" /\ Len(last_expr.kids) = 2
    /\ Len(mir) = 2 /\ mir[1].kind = "Assign" /\ mir[2].kind = "Call"
    /\ mir[2].nargs = 2
    /\ mir[1].span = last_expr.ex.span /\ mir[2].span = last_expr.ex.span
    /\ DOMAIN mir_map = {<<Location(0, 1), <<>>>>, <<Location(0, 1), <<Rvalue>>>>,
                         <<Location(0, 1), <<Rvalue, CallArg(0)>>>>,
                         <<Location(0, 1), <<Rvalue, CallArg(1)>>>>}
    /\ mir_map[<<Location(0, 1), <<>>>>] =
          MirOrigin(last_expr.ex.hir_id, last_expr.ex.span, "StoreIntoLocal")
    /\ mir_map[<<Location(0, 1), <<Rvalue, CallArg(0)>>>>] =
          MirOrigin(last_expr.kids[1].hir_id, last_expr.kids[1].span, "Expr")
    /\ mir_map[<<Location(0, 1), <<Rvalue, CallArg(1)>>>>] =
          MirOrigin(last_expr.kids[2].hir_id, last_expr.kids[2].span, "Expr")
    /\ warnings = <<"NYI: extra locations in Call">>

\* C25: for an expression that is neither an assignment nor a call entries
\* are recorded if and only if the last instruction matching its span is an
\* Assign into a destination that is not projected; then two keys of that
\* location are recorded with the expression as origin, StoreIntoLocal at
\* the empty path and Expr at [Rvalue]; the earlier matching instructions
\* create no entry.
C25_OtherExpr ==
    [][Visits({"Other"}) =>
          LET ex == last_expr'.ex
              found == Matching(ex.span)
              last == found[Len(found)]
              loc == LocOf(mir, last)
          IN IF found # <<>> /\ mir[last].kind = "Assign" /\ mir[last].is_var
             THEN /\ Records(<<RecordCall(loc, <<>>, ex, "StoreIntoLocal"),
                                RecordCall(loc, <<Rvalue>>, ex, "Expr")>>)
                  /\ warnings' = warnings
             ELSE Records(<<>>)]_vars

\* An expression lowered to a Call and then an Assign into a local, both of
\* its span: the two keys of the Assign are in the map, none of the Call.
C25_Witness ==
    /\ last_expr.ex.kind = "Other"
    /\ Len(mir) = 2 /\ mir[1].kind = "Call" /\ mir[2].kind = "Assign"
    /\ mir[1].span = last_expr.ex.span /\ mir[2].span = last_expr.ex.span
    /\ DOMAIN mir_map = {<<Location(1, 0), <<>>>>, <<Location(1, 0), <<Rvalue>>>>}
    /\ mir_map[<<Location(1, 0), <<>>>>] =
          MirOrigin(last_expr.ex.hir_id, last_expr.ex.span, "StoreIntoLocal")
    /\ mir_map[<<Location(1, 0), <<Rvalue>>>>] =
          MirOrigin(last_expr.ex.hir_id, last_expr.ex.span, "Expr")
    /\ warnings = <<>>

\* The matching instructions of the expression the step visits do not have
\* the shape its kind asks for: the wrong count, the wrong kind of
\* instruction or a projected destination.
WrongShape ==
    LET found == Matching(last_expr'.ex.span)
        last == mir[found[Len(found)]]
    IN /\ found # <<>>
       /\ CASE last_expr'.ex.kind = "Assign" ->
                 ~(Len(found) = 1 /\ last.kind = "Assign")
            [] last_expr'.ex.kind \in {"Call", "MethodCall"} ->
                 ~(last.kind = "Call" /\ last.is_var)
            [] OTHER -> ~(last.kind = "Assign" /\ last.is_var)

\* After the step the expressions still to visit are the children of the
\* expression it visited, each once, and then those that were waiting.
StillToVisit ==
    LET n == Len(last_expr'.kids)
    IN /\ Len(pending') = n + Len(pending) - 1
       /\ {pending'[i] : i \in 1..n} =
             {[hir_id |-> last_expr'.kids[i].hir_id, span |-> last_expr'.kids[i].span] :
                 i \in 1..n}
       /\ SubSeq(pending', n + 1, Len(pending')) = Tail(pending)

\* C26: an expression whose matching instructions have the wrong shape
\* leaves the map exactly as it was, logs one warning and does not stop the
\* traversal: its children and the expressions after it are still to be
\* visited.  An expression with no matching instruction left after the
\* filtering leaves the map unchanged as well, with no warning.
C26_MismatchIsLocal ==
    [][
        /\ (Visits({"Assign", "Call", "MethodCall", "Other"}) /\ WrongShape) =>
               /\ mir_map' = mir_map /\ calls' = calls /\ conflicts' = conflicts
               /\ Len(warnings') = Len(warnings) + 1
               /\ StillToVisit
        /\ (Visits({"Assign", "Call", "MethodCall", "Other"})
              /\ Matching(last_expr'.ex.span) = <<>>) =>
               /\ mir_map' = mir_map /\ calls' = calls /\ conflicts' = conflicts
               /\ warnings' = warnings
               /\ StillToVisit
    ]_vars

\* x = y where the instruction of the span of the assignment stores through
\* a projection and is a Call: the assignment gave a warning and no entry,
\* and its right-hand side y, visited next and before x, has its two keys
\* in the map.
C26_Witness ==
    /\ Len(mir) = 2 /\ mir[1].kind = "Call" /\ ~mir[1].is_var /\ mir[1].span = 1
    /\ mir[2].kind = "Assign" /\ mir[2].is_var /\ mir[2].span = 2
    /\ warnings = <<"expected exactly one StatementKind::Assign">>
    /\ last_expr.ex.hir_id = 3 /\ last_expr.ex.span = 2 /\ last_expr.ex.kind = "Other"
    /\ DOMAIN mir_map = {<<Location(1, 0), <<>>>>, <<Location(1, 0), <<Rvalue>>>>}
    /\ \A key \in DOMAIN mir_map : mir_map[key].hir_id = 3
    /\ pending = <<Unvisited(2, 1)>> \/ pending = <<Unvisited(2, 2)>>

====
